---- MODULE Spec2Model ----
(***************************************************************************)
(* A model of parts of the jinja2 package: the lexer's tokeniter loop and  *)
(* its rule table (lexer.py), the TokenStream cursor (lexer.py), the       *)
(* LRUCache (utils.py), Macro.__call__, Context, LoopContext and Undefined *)
(* (runtime.py), FrameSymbolVisitor (idtracking.py) over NodeVisitor       *)
(* (visitor.py), the Optimizer (optimizer.py), the statement loop of the   *)
(* Parser (parser.py), Bucket and the bytecode caches (bccache.py),        *)
(* safe_range (sandbox.py) and get_lexer (lexer.py).                       *)
(*                                                                         *)
(* Records list their fields in the order TLC keeps them in.               *)
(*                                                                         *)
(* Text is a sequence of one-character strings; positions are 0-based as   *)
(* in the Python code, so the character at position p of s is s[p + 1].    *)
(***************************************************************************)
EXTENDS Integers, Sequences, FiniteSets, TLC

VARIABLES
    \* ---- Lexer.tokeniter (lexer.py:420-474)
    lx_source,      \* the source handed to tokeniter
    lx_lines,       \* lines = source.splitlines(True)
    lx_lineno,      \* lineno
    lx_line,        \* line
    lx_pos,         \* pos
    lx_state,       \* state
    lx_stack,       \* state_stack
    lx_out,         \* the tokens yielded so far, in order
    lx_m,           \* the last successful match (rule index, named group)
    lx_pc,          \* "loop" | "after" | "done" | "raised"
    lx_err          \* the exception raised, or NoError

VARIABLES
    \* ---- TokenStream (lexer.py:212-301)
    ts_iter,        \* self._iter: the tokens the generator has yet to yield
    ts_pushed,      \* self._pushed
    ts_current,     \* self.current
    ts_closed,      \* self.closed
    ts_last         \* the last call: its name, what it returned, the stream before it

VARIABLES
    \* ---- LRUCache (utils.py:229-316)
    lru_capacity,   \* self.capacity
    lru_mapping,    \* self._mapping
    lru_queue,      \* self._queue, least recently used first
    lru_lock,       \* self._wlock: the thread holding it, or Free
    lru_frame,      \* per thread: the call it is in and where, or Idle
    lru_last,       \* the last completed call and the cache before it
    lru_recency     \* the keys of the cache by last access, oldest first

VARIABLES
    \* ---- Macro (runtime.py:397-465)
    mc_macro,       \* the Macro object after __init__
    mc_args,        \* *args of the call
    mc_kwargs,      \* **kwargs of the call
    mc_result       \* what __call__ did: the list handed to _invoke, or the error

VARIABLES
    \* ---- FrameSymbolVisitor (idtracking.py:39-83) over NodeVisitor (visitor.py)
    fs_tree,        \* the node visit() is first called on
    fs_todo,        \* the visit() calls still to be made, next first
    fs_loads,       \* self.symbols.loads
    fs_stores,      \* self.symbols.stores
    fs_seen         \* the nodes visit() was called on

VARIABLES
    \* ---- Context (runtime.py:81-198)
    cx_parent,      \* self.parent
    cx_vars,        \* self.vars
    cx_last         \* the last call: its name, its key, what it returned or raised

VARIABLES
    \* ---- LoopContext (runtime.py:224-373)
    lp_iterable,    \* the items of self._iterable
    lp_iterator,    \* self._iterator: the items it has yet to yield
    lp_after,       \* self._after
    lp_index0,      \* self.index0
    lp_current,     \* self._current
    lp_before,      \* self._before
    lp_returned,    \* the items the successful __next__ calls returned, in order
    lp_last         \* the last call: its name, its result, index0 and _after before it

VARIABLES
    \* ---- Undefined (runtime.py:472-558)
    ud_self,        \* the Undefined object: hint, obj, name, exc
    ud_last         \* the last operation on it: its kind, its method, its outcome

VARIABLES
    \* ---- optimize / Optimizer (optimizer.py:17-84)
    op_input,       \* the AST before the first optimize call
    op_unpack,      \* whether a Pair or Keyword node unpacks into two values
    op_node,        \* the AST as it is now (optimize changes it in place)
    op_runs         \* the outcome of each optimize call so far: the node it returned, or raised

VARIABLES
    \* ---- Parser (parser.py:22-194)
    ps_stream,       \* Parser.stream, a TokenStream
    ps_extensions,   \* Parser.extensions, the tags that map to an extension's parse
    ps_end_tokens,   \* parse_statements: its end_tokens argument
    ps_drop_needle,  \* parse_statements: its drop_needle argument
    ps_result,       \* parse_statements: its local result list
    ps_pc,           \* "idle", or "loop" inside the while loop of parse_statements
    ps_last          \* the last call that finished: what it returned or raised

VARIABLES
    \* ---- Bucket and FileSystemBytecodeCache (bccache.py:32-193)
    bc_files,       \* the cache directory: the file stored under each key
    bc_set,         \* per key, the bucket as it was when set_bucket stored it
    bc_bucket,      \* the bucket in hand: key, checksum, code
    bc_last         \* the last call: its name, the file it read, what it raised

VARIABLES
    \* ---- safe_range (sandbox.py:34-53)
    sr_args,        \* *args of the call
    sr_last         \* what the call returned or raised, or that it was not made yet

VARIABLES
    \* ---- get_lexer (lexer.py:304-323) over _lexer_cache (lexer.py:17)
    gl_cache,       \* _lexer_cache: its mapping and its queue
    gl_frame        \* per thread: the get_lexer call it is in, its key and where it is

lexVars == <<lx_source, lx_lines, lx_lineno, lx_line, lx_pos, lx_state,
             lx_stack, lx_out, lx_m, lx_pc, lx_err>>

tsVars == <<ts_iter, ts_pushed, ts_current, ts_closed, ts_last>>

lruVars == <<lru_capacity, lru_mapping, lru_queue, lru_lock, lru_frame,
             lru_last, lru_recency>>

mcVars == <<mc_macro, mc_args, mc_kwargs, mc_result>>

fsVars == <<fs_tree, fs_todo, fs_loads, fs_stores, fs_seen>>

cxVars == <<cx_parent, cx_vars, cx_last>>

lpVars == <<lp_iterable, lp_iterator, lp_after, lp_index0, lp_current, lp_before, lp_returned, lp_last>>

udVars == <<ud_self, ud_last>>

opVars == <<op_input, op_unpack, op_node, op_runs>>

psVars == <<ps_stream, ps_extensions, ps_end_tokens, ps_drop_needle, ps_result, ps_pc, ps_last>>

bcVars == <<bc_files, bc_set, bc_bucket, bc_last>>

srVars == <<sr_args, sr_last>>

glVars == <<gl_cache, gl_frame>>

vars == <<lexVars, tsVars, lruVars, mcVars, fsVars, cxVars, lpVars, udVars, opVars, psVars, bcVars, srVars, glVars>>

\* What the actions of one component leave unchanged.
OtherThanLexer == <<tsVars, lruVars, mcVars, fsVars, cxVars, lpVars, udVars, opVars, psVars, bcVars, srVars, glVars>>
OtherThanStream == <<lexVars, lruVars, mcVars, fsVars, cxVars, lpVars, udVars, opVars, psVars, bcVars, srVars, glVars>>
OtherThanCache == <<lexVars, tsVars, mcVars, fsVars, cxVars, lpVars, udVars, opVars, psVars, bcVars, srVars, glVars>>
OtherThanMacro == <<lexVars, tsVars, lruVars, fsVars, cxVars, lpVars, udVars, opVars, psVars, bcVars, srVars, glVars>>
OtherThanSymbols == <<lexVars, tsVars, lruVars, mcVars, cxVars, lpVars, udVars, opVars, psVars, bcVars, srVars, glVars>>
OtherThanContext == <<lexVars, tsVars, lruVars, mcVars, fsVars, lpVars, udVars, opVars, psVars, bcVars, srVars, glVars>>
OtherThanLoop == <<lexVars, tsVars, lruVars, mcVars, fsVars, cxVars, udVars, opVars, psVars, bcVars, srVars, glVars>>
OtherThanUndefined == <<lexVars, tsVars, lruVars, mcVars, fsVars, cxVars, lpVars, opVars, psVars, bcVars, srVars, glVars>>
OtherThanOptimizer == <<lexVars, tsVars, lruVars, mcVars, fsVars, cxVars, lpVars, udVars, psVars, bcVars, srVars, glVars>>
OtherThanParser == <<lexVars, tsVars, lruVars, mcVars, fsVars, cxVars, lpVars, udVars, opVars, bcVars, srVars, glVars>>
OtherThanBucket == <<lexVars, tsVars, lruVars, mcVars, fsVars, cxVars, lpVars, udVars, opVars, psVars, srVars, glVars>>
OtherThanRange == <<lexVars, tsVars, lruVars, mcVars, fsVars, cxVars, lpVars, udVars, opVars, psVars, bcVars, glVars>>
OtherThanGetLexer == <<lexVars, tsVars, lruVars, mcVars, fsVars, cxVars, lpVars, udVars, opVars, psVars, bcVars, srVars>>

----------------------------------------------------------------------------
(* Bounds *)

\* A source is at most MaxPieces pieces long (after an optional first line).
MaxPieces == 3

\* The generator behind a TokenStream yields at most MaxTokens tokens before eof.
MaxTokens == 3

\* TokenStream.push is called while fewer than MaxPushed tokens are pushed back.
MaxPushed == 2

\* The keys used with an LRUCache are 1..NumKeys.
NumKeys == 3

\* An LRUCache has a capacity of 1..MaxCapacity.
MaxCapacity == 2

\* The threads that share one LRUCache are 1..NumThreads.
NumThreads == 2

\* A macro declares at most MaxParams parameters.
MaxParams == 2

\* A macro is called with at most MaxArgs positional arguments.
MaxArgs == 3

\* Statements of the visited trees nest at most MaxNesting deep.
MaxNesting == 1

\* A loop runs over an iterable of at most MaxItems items.
MaxItems == 3

\* The optimized expressions nest at most MaxExprDepth deep.
MaxExprDepth == 2

\* optimize is called at most MaxRuns times on one AST.
MaxRuns == 2

----------------------------------------------------------------------------
(* Text helpers *)

NL == "\n"
CR == "\r"

None == <<"<None>">>

At(s, p) == IF p >= 0 /\ p < Len(s) THEN s[p + 1] ELSE ""

Lit(s, p, w) == /\ p + Len(w) <= Len(s)
                /\ \A i \in 1..Len(w) : s[p + i] = w[i]

Slice(s, a, b) == SubSeq(s, a + 1, b)

IsSpace(c) == c \in {" ", "\t", NL, CR}

Digits == {"0", "1", "2", "3", "4", "5", "6", "7", "8", "9"}

Letters == {"a", "d", "e", "n", "r", "w", "x", "b", "o", "f", "E"}

\* \s* from p: the end of the longest run of whitespace.
RECURSIVE WsEnd(_, _)
WsEnd(s, p) == IF IsSpace(At(s, p)) THEN WsEnd(s, p + 1) ELSE p

\* (\-|\+|) from p.
SignEnd(s, p) == IF At(s, p) \in {"-", "+"} THEN p + 1 ELSE p

\* The text (\-|\+|) matches at p.
SignAt(s, p) == IF At(s, p) \in {"-", "+"} THEN At(s, p) ELSE ""

----------------------------------------------------------------------------
(* Environment settings read by Lexer.__init__ *)

block_start_string    == <<"{", "%">>
block_end_string      == <<"%", "}">>
variable_start_string == <<"{", "{">>
variable_end_string   == <<"}", "}">>
comment_start_string  == <<"{", "#">>
comment_end_string    == <<"#", "}">>
trim_blocks           == FALSE
newline_sequence      == <<NL>>

\* block_suffix_re = '\n?' if environment.trim_blocks else ''
BlockSuffixEnd(s, p) == IF trim_blocks /\ At(s, p) = NL THEN p + 1 ELSE p

----------------------------------------------------------------------------
(* The regular expressions of lexer.py, each as the end position of its    *)
(* match at p, or -1 when it does not match there.                         *)

\* \d+
RECURSIVE DigRunEnd(_, _)
DigRunEnd(s, p) ==
    IF At(s, p) \in Digits
    THEN IF At(s, p + 1) \in Digits THEN DigRunEnd(s, p + 1) ELSE p + 1
    ELSE -1

\* (\d+_)*\d+
RECURSIVE DigGroupEnd(_, _)
DigGroupEnd(s, p) ==
    LET d == DigRunEnd(s, p) IN
    IF d < 0 THEN -1
    ELSE IF At(s, d) = "_" /\ DigRunEnd(s, d + 1) >= 0
         THEN DigGroupEnd(s, d + 1)
         ELSE d

\* \.(\d+_)*\d+
FracEnd(s, p) == IF At(s, p) = "." THEN DigGroupEnd(s, p + 1) ELSE -1

\* e[+\-]?(\d+_)*\d+   (IGNORECASE)
ExpEnd(s, p) ==
    IF At(s, p) \in {"e", "E"}
    THEN IF At(s, p + 1) \in {"+", "-"}
         THEN DigGroupEnd(s, p + 2)
         ELSE DigGroupEnd(s, p + 1)
    ELSE -1

float_re(s, p) ==
    IF p > 0 /\ At(s, p - 1) = "." THEN -1
    ELSE LET d == DigGroupEnd(s, p) IN
         IF d < 0 THEN -1
         ELSE LET f == FracEnd(s, d)
                  x == ExpEnd(s, IF f >= 0 THEN f ELSE d)
              IN  IF x >= 0 THEN x ELSE f

\* (_?[set])+ from p, at least once.
RECURSIVE RadixEnd(_, _, _)
RadixEnd(s, p, set) ==
    LET q == IF At(s, p) = "_" /\ At(s, p + 1) \in set THEN p + 2
             ELSE IF At(s, p) \in set THEN p + 1
             ELSE -1
    IN  IF q < 0 THEN -1
        ELSE IF RadixEnd(s, q, set) >= 0 THEN RadixEnd(s, q, set) ELSE q

RadixOrHere(s, p, set) == IF RadixEnd(s, p, set) >= 0 THEN RadixEnd(s, p, set) ELSE p

integer_re(s, p) ==
    IF At(s, p) = "0" /\ At(s, p + 1) \in {"b", "B"} /\ RadixEnd(s, p + 2, {"0", "1"}) >= 0
    THEN RadixEnd(s, p + 2, {"0", "1"})
    ELSE IF At(s, p) = "0" /\ At(s, p + 1) \in {"o", "O"}
            /\ RadixEnd(s, p + 2, {"0", "1", "2", "3", "4", "5", "6", "7"}) >= 0
    THEN RadixEnd(s, p + 2, {"0", "1", "2", "3", "4", "5", "6", "7"})
    ELSE IF At(s, p) = "0" /\ At(s, p + 1) \in {"x", "X"}
            /\ RadixEnd(s, p + 2, Digits \cup {"a", "b", "c", "d", "e", "f", "A", "B", "C", "D", "E", "F"}) >= 0
    THEN RadixEnd(s, p + 2, Digits \cup {"a", "b", "c", "d", "e", "f", "A", "B", "C", "D", "E", "F"})
    ELSE IF At(s, p) \in Digits \ {"0"}
    THEN RadixOrHere(s, p + 1, Digits)
    ELSE IF At(s, p) = "0"
    THEN RadixOrHere(s, p + 1, {"0"})
    ELSE -1

whitespace_re(s, p) == IF WsEnd(s, p) > p THEN WsEnd(s, p) ELSE -1

\* [\w...]+ : a run of word characters.
IsWord(c) == c \in Letters \cup Digits \cup {"_"}

RECURSIVE WordEnd(_, _)
WordEnd(s, p) == IF IsWord(At(s, p)) THEN WordEnd(s, p + 1) ELSE p

name_re(s, p) == IF WordEnd(s, p) > p THEN WordEnd(s, p) ELSE -1

\* The body of a quoted string from p up to and including the closing quote q.
RECURSIVE StrBodyEnd(_, _, _)
StrBodyEnd(s, p, q) ==
    IF p >= Len(s) THEN -1
    ELSE IF At(s, p) = q THEN p + 1
    ELSE IF At(s, p) = "\\" THEN (IF p + 1 < Len(s) THEN StrBodyEnd(s, p + 2, q) ELSE -1)
    ELSE StrBodyEnd(s, p + 1, q)

string_re(s, p) ==
    IF At(s, p) \in {"'", "\""} THEN StrBodyEnd(s, p + 1, At(s, p)) ELSE -1

Operators2 == {<<"/", "/">>, <<"*", "*">>, <<"=", "=">>, <<"!", "=">>,
               <<">", "=">>, <<"<", "=">>}

Operators1 == {"+", "-", "/", "*", "%", "~", "[", "]", "(", ")", "{", "}",
               ">", "<", "=", ".", ":", "|", ",", ";"}

\* The alternatives are sorted longest first.
operator_re(s, p) ==
    IF p + 2 <= Len(s) /\ <<At(s, p), At(s, p + 1)>> \in Operators2 THEN p + 2
    ELSE IF At(s, p) \in Operators1 THEN p + 1
    ELSE -1


\* The close of a tag with end delimiter e: \+e | \-e\s* | e<suffix>
TagCloseEnd(s, p, e) ==
    IF At(s, p) = "+" /\ Lit(s, p + 1, e) THEN p + 1 + Len(e)
    ELSE IF At(s, p) = "-" /\ Lit(s, p + 1, e) THEN WsEnd(s, p + 1 + Len(e))
    ELSE IF Lit(s, p, e) THEN BlockSuffixEnd(s, p + Len(e))
    ELSE -1

\* root_raw_re: {%(\-|\+|)\s*raw\s*(?:\-%}\s*|%})
root_raw_re(s, p) ==
    IF ~Lit(s, p, block_start_string) THEN -1
    ELSE LET b == WsEnd(s, SignEnd(s, p + Len(block_start_string))) IN
         IF ~Lit(s, b, <<"r", "a", "w">>) THEN -1
         ELSE LET c == WsEnd(s, b + 3) IN
              IF At(s, c) = "-" /\ Lit(s, c + 1, block_end_string)
              THEN WsEnd(s, c + 1 + Len(block_end_string))
              ELSE IF Lit(s, c, block_end_string)
              THEN c + Len(block_end_string)
              ELSE -1

\* compile_rules: the (name, start delimiter) pairs, in the order of the list.
root_tag_rules == << <<"comment", comment_start_string>>,
                     <<"block", block_start_string>>,
                     <<"variable", variable_start_string>> >>

\* root_parts_re at p: the first alternative that matches there.
RootOpen(s, p) ==
    IF root_raw_re(s, p) >= 0
    THEN [ok |-> TRUE, end |-> root_raw_re(s, p), grp |-> "raw_begin",
          sign |-> SignAt(s, p + Len(block_start_string))]
    ELSE IF \E i \in 1..Len(root_tag_rules) : Lit(s, p, root_tag_rules[i][2])
    THEN LET i == CHOOSE j \in 1..Len(root_tag_rules) :
                    /\ Lit(s, p, root_tag_rules[j][2])
                    /\ \A k \in 1..(j - 1) : ~Lit(s, p, root_tag_rules[k][2])
         IN [ok |-> TRUE, end |-> SignEnd(s, p + Len(root_tag_rules[i][2])),
             grp |-> root_tag_rules[i][1],
             sign |-> SignAt(s, p + Len(root_tag_rules[i][2]))]
    ELSE [ok |-> FALSE, end |-> -1, grp |-> "", sign |-> ""]

NoMatch == [ok |-> FALSE, end |-> -1, groups |-> <<>>, grp |-> "", sign |-> ""]

\* The least k >= p at which f holds of k, or -1: the lazy (.*?) prefix.
RECURSIVE RootFind(_, _)
RootFind(s, k) == IF k > Len(s) THEN -1
                  ELSE IF RootOpen(s, k).ok THEN k
                  ELSE RootFind(s, k + 1)

\* (.*?)(?:root_parts_re); group 1 is the data, group 2 the raw_begin group.
root_re(s, p) ==
    LET k == RootFind(s, p) IN
    IF k < 0 THEN NoMatch
    ELSE LET o == RootOpen(s, k) IN
         [ok |-> TRUE, end |-> o.end,
          groups |-> <<Slice(s, p, k),
                       IF o.grp = "raw_begin" THEN Slice(s, k, o.end) ELSE None>>,
          grp |-> o.grp, sign |-> o.sign]

\* .+
data_re(s, p) ==
    IF p < Len(s)
    THEN [ok |-> TRUE, end |-> Len(s), groups |-> <<Slice(s, p, Len(s))>>, grp |-> "", sign |-> ""]
    ELSE NoMatch

RECURSIVE CommentFind(_, _)
CommentFind(s, k) == IF k > Len(s) THEN -1
                     ELSE IF TagCloseEnd(s, k, comment_end_string) >= 0 THEN k
                     ELSE CommentFind(s, k + 1)

\* (.*?)((?:\+#}|\-#}\s*|#}<suffix>))
comment_re(s, p) ==
    LET k == CommentFind(s, p) IN
    IF k < 0 THEN NoMatch
    ELSE LET e == TagCloseEnd(s, k, comment_end_string) IN
         [ok |-> TRUE, end |-> e,
          groups |-> <<Slice(s, p, k), Slice(s, k, e)>>, grp |-> "", sign |-> ""]

\* (.)
anychar_re(s, p) ==
    IF p < Len(s)
    THEN [ok |-> TRUE, end |-> p + 1, groups |-> <<Slice(s, p, p + 1)>>, grp |-> "", sign |-> ""]
    ELSE NoMatch

\* (?:{%(\-|\+|))\s*endraw\s*(?:\+%}|\-%}\s*|%}<suffix>)
RawCloseEnd(s, p) ==
    IF ~Lit(s, p, block_start_string) THEN -1
    ELSE LET b == WsEnd(s, SignEnd(s, p + Len(block_start_string))) IN
         IF ~Lit(s, b, <<"e", "n", "d", "r", "a", "w">>) THEN -1
         ELSE TagCloseEnd(s, WsEnd(s, b + 6), block_end_string)

RECURSIVE RawFind(_, _)
RawFind(s, k) == IF k > Len(s) THEN -1
                 ELSE IF RawCloseEnd(s, k) >= 0 THEN k
                 ELSE RawFind(s, k + 1)

raw_re(s, p) ==
    LET k == RawFind(s, p) IN
    IF k < 0 THEN NoMatch
    ELSE [ok |-> TRUE, end |-> RawCloseEnd(s, k),
          groups |-> <<Slice(s, p, k), Slice(s, k, RawCloseEnd(s, k))>>, grp |-> "", sign |-> ""]

\* \-}}\s*|}}
variable_end_re(s, p) ==
    IF At(s, p) = "-" /\ Lit(s, p + 1, variable_end_string)
    THEN WsEnd(s, p + 1 + Len(variable_end_string))
    ELSE IF Lit(s, p, variable_end_string) THEN p + Len(variable_end_string)
    ELSE -1

\* The index just after the last newline of s[p..e), or -1.
RECURSIVE LastNewline(_, _, _)
LastNewline(s, p, e) == IF e <= p THEN -1
                        ELSE IF At(s, e - 1) = NL THEN e
                        ELSE LastNewline(s, p, e - 1)

\* \s*(\n|$) with re.M
linestatement_end_re(s, p) ==
    LET e == WsEnd(s, p) IN
    IF e = Len(s) THEN e ELSE LastNewline(s, p, e)

RECURSIVE LineEndFind(_, _)
LineEndFind(s, k) == IF k >= Len(s) \/ At(s, k) = NL THEN k ELSE LineEndFind(s, k + 1)

\* (.*?)()(?=\n|$)
linecomment_re(s, p) ==
    [ok |-> TRUE, end |-> LineEndFind(s, p),
     groups |-> <<Slice(s, p, LineEndFind(s, p)), <<>> >>, grp |-> "", sign |-> ""]

\* A pattern that yields the whole match: m.group().
Whole(s, p, e) ==
    IF e < 0 THEN NoMatch
    ELSE [ok |-> TRUE, end |-> e, groups |-> <<Slice(s, p, e)>>, grp |-> "", sign |-> ""]


----------------------------------------------------------------------------
(* Lexer.__init__: the rule table self.rules *)

NoCmd == "<None>"

Rule(pat, tokens, tuple, command) ==
    [pat |-> pat, tokens |-> tokens, tuple |-> tuple, command |-> command]

tag_rules ==
    << Rule("whitespace_re", <<"whitespace">>, FALSE, NoCmd),
       Rule("float_re", <<"float">>, FALSE, NoCmd),
       Rule("integer_re", <<"integer">>, FALSE, NoCmd),
       Rule("name_re", <<"name">>, FALSE, NoCmd),
       Rule("string_re", <<"string">>, FALSE, NoCmd),
       Rule("operator_re", <<"operator">>, FALSE, NoCmd) >>

rules ==
    [ root |->
        << Rule("root_re", <<"data", "#bygroup">>, TRUE, "#bygroup"),
           Rule("data_re", <<"data">>, FALSE, NoCmd) >>,
      comment_begin |->
        << Rule("comment_re", <<"comment", "comment_end">>, TRUE, "#pop"),
           Rule("anychar_re", <<"Failure(Missing end of comment tag)">>, TRUE, NoCmd) >>,
      block_begin |->
        << Rule("block_end_re", <<"block_end">>, FALSE, "#pop") >> \o tag_rules,
      variable_begin |->
        << Rule("variable_end_re", <<"variable_end">>, FALSE, "#pop") >> \o tag_rules,
      raw_begin |->
        << Rule("raw_re", <<"data", "raw_end">>, TRUE, "#pop"),
           Rule("anychar_re", <<"Failure(Missing end of raw directive)">>, TRUE, NoCmd) >>,
      linestatement_begin |->
        << Rule("linestatement_end_re", <<"linestatement_end">>, FALSE, "#pop") >> \o tag_rules,
      linecomment_begin |->
        << Rule("linecomment_re", <<"linecomment", "linecomment_end">>, TRUE, "#pop") >> ]

\* rule.pattern.match(line, pos)
PatternMatch(pat, s, p) ==
    CASE pat = "root_re"              -> root_re(s, p)
      [] pat = "data_re"              -> data_re(s, p)
      [] pat = "comment_re"           -> comment_re(s, p)
      [] pat = "anychar_re"           -> anychar_re(s, p)
      [] pat = "raw_re"               -> raw_re(s, p)
      [] pat = "linecomment_re"       -> linecomment_re(s, p)
      [] pat = "block_end_re"         -> Whole(s, p, TagCloseEnd(s, p, block_end_string))
      [] pat = "variable_end_re"      -> Whole(s, p, variable_end_re(s, p))
      [] pat = "linestatement_end_re" -> Whole(s, p, linestatement_end_re(s, p))
      [] pat = "whitespace_re"        -> Whole(s, p, whitespace_re(s, p))
      [] pat = "float_re"             -> Whole(s, p, float_re(s, p))
      [] pat = "integer_re"           -> Whole(s, p, integer_re(s, p))
      [] pat = "name_re"              -> Whole(s, p, name_re(s, p))
      [] pat = "string_re"            -> Whole(s, p, string_re(s, p))
      [] pat = "operator_re"          -> Whole(s, p, operator_re(s, p))

----------------------------------------------------------------------------
(* Lexer._normalize_newlines and str.splitlines(True) *)

\* newline_re.sub(self.newline_sequence, value): \r\n | \r | \n
RECURSIVE normalize_newlines(_)
normalize_newlines(s) ==
    IF s = <<>> THEN <<>>
    ELSE IF s[1] = CR /\ Len(s) >= 2 /\ s[2] = NL
         THEN newline_sequence \o normalize_newlines(SubSeq(s, 3, Len(s)))
    ELSE IF s[1] \in {CR, NL}
         THEN newline_sequence \o normalize_newlines(Tail(s))
    ELSE <<s[1]>> \o normalize_newlines(Tail(s))

\* The length of the first line of s, its line break included.
RECURSIVE FirstLineLen(_, _)
FirstLineLen(s, i) ==
    IF i > Len(s) THEN Len(s)
    ELSE IF s[i] = CR /\ i < Len(s) /\ s[i + 1] = NL THEN i + 1
    ELSE IF s[i] \in {CR, NL} THEN i
    ELSE FirstLineLen(s, i + 1)

RECURSIVE splitlines(_)
splitlines(s) ==
    IF s = <<>> THEN <<>>
    ELSE LET n == FirstLineLen(s, 1) IN
         <<SubSeq(s, 1, n)>> \o splitlines(SubSeq(s, n + 1, Len(s)))


----------------------------------------------------------------------------
(* Lexer.tokeniter *)

NoError == [cls |-> "<None>"]

Token(lineno, type, value) == [lineno |-> lineno, type |-> type, value |-> value]

\* The first rule of the current state that matches line at pos, or 0.
FirstRule(state, line, pos) ==
    LET rs == rules[state]
        hits == {i \in 1..Len(rs) : PatternMatch(rs[i].pat, line, pos).ok}
    IN  IF hits = {} THEN 0 ELSE CHOOSE i \in hits : \A j \in hits : i <= j

\* The tokens one rule application yields.
Yielded(rule, m, lineno) ==
    IF rule.tuple
    THEN [idx \in 1..Len(rule.tokens) |-> Token(lineno, rule.tokens[idx], m.groups[idx])]
    ELSE <<Token(lineno, rule.tokens[1], m.groups[1])>>

\* state_stack after a command whose #pop never takes the last state off.
StackAfter_KeepsLast(stack, state, cmd) ==
    IF cmd = "#pop"
    THEN IF Len(stack) > 1 THEN SubSeq(stack, 1, Len(stack) - 1) ELSE stack
    ELSE IF cmd = "#push" THEN Append(stack, state)
    ELSE Append(stack, cmd)

\* state_stack after the rule's command.
StackAfter(stack, state, cmd) ==
    IF cmd = "#pop"
    THEN LET popped == SubSeq(stack, 1, Len(stack) - 1) IN
         IF popped = <<>> THEN <<"root">> ELSE popped
    ELSE IF cmd = "#push" THEN Append(stack, state)
    ELSE Append(stack, cmd)

\* The effect of the match m of the i-th rule of the state: the tokens, the
\* new position and the rule's command.
TokeniterApply(i, rule, m, yielded) ==
    /\ lx_out' = lx_out \o yielded
    /\ lx_pos' = m.end
    /\ lx_stack' = IF rule.command # NoCmd
                   THEN StackAfter(lx_stack, lx_state, rule.command)
                   ELSE lx_stack
    /\ lx_state' = IF rule.command # NoCmd THEN lx_stack'[Len(lx_stack')] ELSE lx_state
    /\ lx_m' = [state |-> lx_state, rule |-> i, grp |-> m.grp,
                sign |-> m.sign, command |-> rule.command,
                yielded |-> Len(yielded), depth |-> Len(lx_stack)]

TokeniterRule(i, rule, m) == TokeniterApply(i, rule, m, Yielded(rule, m, lx_lineno))

TokeniterTry(i) ==
    /\ i # 0
    /\ TokeniterRule(i, rules[lx_state][i],
                     PatternMatch(rules[lx_state][i].pat, lx_line, lx_pos))

\* One pass of the for loop in which a rule matches.
TokeniterMatch ==
    /\ lx_pc = "loop"
    /\ lx_state \in DOMAIN rules
    /\ TokeniterTry(FirstRule(lx_state, lx_line, lx_pos))
    /\ UNCHANGED <<lx_source, lx_lines, lx_lineno, lx_line, lx_pc, lx_err>>
    /\ UNCHANGED OtherThanLexer

\* The else branch of the for loop: no rule matched, move to the next line.
TokeniterNextLine ==
    /\ lx_pc = "loop"
    /\ lx_state \in DOMAIN rules
    /\ FirstRule(lx_state, lx_line, lx_pos) = 0
    /\ lx_pos' = 0
    /\ lx_lineno' = lx_lineno + 1
    /\ IF lx_lineno + 1 > Len(lx_lines)
       THEN lx_pc' = "after" /\ lx_line' = lx_line
       ELSE lx_pc' = "loop" /\ lx_line' = lx_lines[lx_lineno + 1]
    /\ UNCHANGED <<lx_source, lx_lines, lx_state, lx_stack, lx_out, lx_m, lx_err>>
    /\ UNCHANGED OtherThanLexer

\* self.rules[state] for a state that is no key of self.rules.
TokeniterKeyError ==
    /\ lx_pc = "loop"
    /\ lx_state \notin DOMAIN rules
    /\ lx_pc' = "raised"
    /\ lx_err' = [cls |-> "KeyError", key |-> lx_state]
    /\ UNCHANGED <<lx_source, lx_lines, lx_lineno, lx_line, lx_pos, lx_state,
                   lx_stack, lx_out, lx_m>>
    /\ UNCHANGED OtherThanLexer

\* TokeniterEnd with the eof token yielded twice.
TokeniterEnd_EofTwice ==
    /\ lx_pc = "after"
    /\ IF lx_state # "root"
       THEN /\ lx_pc' = "raised"
            /\ lx_err' = [cls |-> "TemplateSyntaxError",
                          message |-> "Unexpected end of template",
                          lineno |-> lx_lineno, name |-> "name",
                          filename |-> "filename"]
            /\ lx_out' = lx_out
       ELSE /\ lx_pc' = "done"
            /\ lx_err' = lx_err
            /\ lx_out' = lx_out \o <<Token(lx_lineno, "eof", <<>>),
                                      Token(lx_lineno, "eof", <<>>)>>
    /\ UNCHANGED <<lx_source, lx_lines, lx_lineno, lx_line, lx_pos, lx_state,
                   lx_stack, lx_m>>
    /\ UNCHANGED OtherThanLexer

\* After the loop: the state check and the eof token.
TokeniterEnd ==
    /\ lx_pc = "after"
    /\ IF lx_state # "root"
       THEN /\ lx_pc' = "raised"
            /\ lx_err' = [cls |-> "TemplateSyntaxError",
                          message |-> "Unexpected end of template",
                          lineno |-> lx_lineno, name |-> "name",
                          filename |-> "filename"]
            /\ lx_out' = lx_out
       ELSE /\ lx_pc' = "done"
            /\ lx_err' = lx_err
            /\ lx_out' = Append(lx_out, Token(lx_lineno, "eof", <<>>))
    /\ UNCHANGED <<lx_source, lx_lines, lx_lineno, lx_line, lx_pos, lx_state,
                   lx_stack, lx_m>>
    /\ UNCHANGED OtherThanLexer

----------------------------------------------------------------------------
(* The sources and initial states the lexer is run on *)

Pieces == { <<NL>>, <<" ">>, <<"$">>, <<"-">>,
            <<"r", "a", "w">>, <<"e", "n", "d", "r", "a", "w">>,
            block_start_string, block_end_string,
            variable_start_string, variable_end_string,
            comment_start_string, comment_end_string }

FirstLines == { <<>>, <<"x", NL>> }

RECURSIVE Flatten(_)
Flatten(ps) == IF ps = <<>> THEN <<>> ELSE Head(ps) \o Flatten(Tail(ps))

Sources == { f \o Flatten(ps) :
               f \in FirstLines,
               ps \in UNION { [1..n -> Pieces] : n \in 0..MaxPieces } }

InitialStates == {"root", "comment_begin", "block_begin", "variable_begin",
                  "raw_begin", "linestatement_begin", "linecomment_begin"}

NoMatchYet == [state |-> "<None>", rule |-> 0, grp |-> "", sign |-> "",
               command |-> NoCmd, yielded |-> 0, depth |-> 0]

\* tokeniter(source, name, filename, state) up to the while loop.
LexInit ==
    /\ lx_source \in Sources
    /\ lx_lines = splitlines(normalize_newlines(lx_source))
    /\ lx_lineno = 1
    /\ lx_state \in InitialStates
    /\ lx_stack = <<lx_state>>
    /\ lx_line = <<>>
    /\ lx_pos = 0
    /\ lx_out = <<>>
    /\ lx_m = NoMatchYet
    /\ lx_pc = "loop"
    /\ lx_err = NoError

LexNext == \/ TokeniterMatch
           \/ TokeniterNextLine
           \/ TokeniterKeyError
           \/ TokeniterEnd

\* The lexer before any call of tokeniter.
LexIdle ==
    /\ lx_source = <<>>
    /\ lx_lines = <<>>
    /\ lx_lineno = 1
    /\ lx_state = "root"
    /\ lx_stack = <<"root">>
    /\ lx_line = <<>>
    /\ lx_pos = 0
    /\ lx_out = <<>>
    /\ lx_m = NoMatchYet
    /\ lx_pc = "idle"
    /\ lx_err = NoError

----------------------------------------------------------------------------
(* TokenStream *)

EofToken(lineno) == Token(lineno, "eof", <<>>)

Stream(iter, pushed, current, closed) ==
    [iter |-> iter, pushed |-> pushed, current |-> current, closed |-> closed]

TheStream == Stream(ts_iter, ts_pushed, ts_current, ts_closed)

\* Token.test(expr) for an expression "type" or "type:value".
TokenTest(token, expr) ==
    IF expr.value # None
    THEN token.type = expr.type /\ token.value = expr.value
    ELSE token.type = expr.type

\* TokenStream.__next__ that moves on from the eof token as from any other.
stream_next_PastEof(st) ==
    [rv |-> st.current,
     st |-> IF st.pushed # <<>>
            THEN [st EXCEPT !.current = Head(st.pushed), !.pushed = Tail(st.pushed)]
            ELSE IF st.iter # <<>>
            THEN [st EXCEPT !.current = Head(st.iter), !.iter = Tail(st.iter)]
            ELSE [st EXCEPT !.current = Token(st.current.lineno, "initial", <<>>),
                            !.closed = TRUE]]

\* TokenStream.__next__: the stream after the call and the token returned.
stream_next(st) ==
    [rv |-> st.current,
     st |-> IF st.pushed # <<>>
            THEN [st EXCEPT !.current = Head(st.pushed), !.pushed = Tail(st.pushed)]
            ELSE IF st.current.type # "eof"
            THEN IF st.iter # <<>>
                 THEN [st EXCEPT !.current = Head(st.iter), !.iter = Tail(st.iter)]
                 ELSE [st EXCEPT !.closed = TRUE]
            ELSE st]

\* TokenStream.push that puts the token in front of those pushed before.
stream_push_Front(st, token) == [st EXCEPT !.pushed = <<token>> \o st.pushed]

\* TokenStream.push
stream_push(st, token) == [st EXCEPT !.pushed = Append(st.pushed, token)]

\* TokenStream.look
stream_look(st) ==
    LET n == stream_next(st)
        old_token == n.rv
        result == n.st.current
    IN  [rv |-> result, st |-> stream_push(n.st, old_token)]

\* TokenStream.skip
RECURSIVE stream_skip(_, _)
stream_skip(st, n) == IF n = 0 THEN st ELSE stream_skip(stream_next(st).st, n - 1)

\* TokenStream.next_if: the token, or NoToken for None.
NoToken == [lineno |-> 0, type |-> "<None>", value |-> None]

stream_next_if(st, expr) ==
    IF TokenTest(st.current, expr) THEN stream_next(st) ELSE [rv |-> NoToken, st |-> st]

\* TokenStream.__init__
stream_init(generator) ==
    stream_next(Stream(generator, <<>>, Token(1, "initial", <<>>), FALSE)).st

SetStream(st) ==
    /\ ts_iter' = st.iter
    /\ ts_pushed' = st.pushed
    /\ ts_current' = st.current
    /\ ts_closed' = st.closed

Called(op, arg, rv) == [op |-> op, arg |-> arg, rv |-> rv, before |-> TheStream]

\* The tokens handed to push: their line numbers tell them apart from the
\* generator's.
PushTokens == { Token(101, "name", <<"i", "n">>), Token(102, "data", <<"x">>) }

TestExprs == { [type |-> "name", value |-> None], [type |-> "eof", value |-> None],
               [type |-> "name", value |-> <<"i", "n">>] }

StreamAdvance ==
    /\ SetStream(stream_next(TheStream).st)
    /\ ts_last' = Called("next", 0, stream_next(TheStream).rv)
    /\ UNCHANGED OtherThanStream

StreamPush ==
    /\ Len(ts_pushed) < MaxPushed
    /\ \E token \in PushTokens :
          /\ SetStream(stream_push(TheStream, token))
          /\ ts_last' = Called("push", token, NoToken)
    /\ UNCHANGED OtherThanStream

StreamLook ==
    /\ SetStream(stream_look(TheStream).st)
    /\ ts_last' = Called("look", 0, stream_look(TheStream).rv)
    /\ UNCHANGED OtherThanStream

StreamSkip ==
    /\ \E n \in 1..2 :
          /\ SetStream(stream_skip(TheStream, n))
          /\ ts_last' = Called("skip", n, NoToken)
    /\ UNCHANGED OtherThanStream

StreamNextIf ==
    /\ \E expr \in TestExprs :
          /\ SetStream(stream_next_if(TheStream, expr).st)
          /\ ts_last' = Called("next_if", expr, stream_next_if(TheStream, expr).rv)
    /\ UNCHANGED OtherThanStream

\* The token sequences a generator yields: up to MaxTokens tokens, each on a
\* line of its own, then eof (as Lexer.tokeniter ends its output).
Generators ==
    { [i \in 1..Len(types) |->
          Token(i, types[i], IF types[i] = "name" THEN <<"i", "n">> ELSE <<"x">>)]
         \o <<EofToken(Len(types) + 1)>> :
        types \in UNION { [1..n -> {"name", "data"}] : n \in 0..MaxTokens } }

NoCall == [op |-> "<init>", arg |-> 0, rv |-> NoToken,
           before |-> Stream(<<>>, <<>>, NoToken, FALSE)]

StreamInit ==
    /\ \E g \in Generators :
          /\ ts_iter = stream_init(g).iter
          /\ ts_pushed = stream_init(g).pushed
          /\ ts_current = stream_init(g).current
          /\ ts_closed = stream_init(g).closed
    /\ ts_last = NoCall

StreamIdle ==
    /\ ts_iter = <<>>
    /\ ts_pushed = <<>>
    /\ ts_current = NoToken
    /\ ts_closed = FALSE
    /\ ts_last = NoCall

StreamNext == \/ StreamAdvance
              \/ StreamPush
              \/ StreamLook
              \/ StreamSkip
              \/ StreamNextIf

----------------------------------------------------------------------------
(* LRUCache *)

Keys == 1..NumKeys

Values == {"v1", "v2"}

Threads == 1..NumThreads

Free == 0

EmptyMap == [k \in {} |-> "v1"]

MapSet(m, k, v) == [x \in DOMAIN m \cup {k} |-> IF x = k THEN v ELSE m[x]]

MapDel(m, k) == [x \in DOMAIN m \ {k} |-> m[x]]

InQueue(q, k) == \E i \in 1..Len(q) : q[i] = k

\* deque.remove: the queue without the first occurrence of k.
queue_remove(q, k) ==
    LET i == CHOOSE j \in 1..Len(q) : q[j] = k /\ \A h \in 1..(j - 1) : q[h] # k
    IN  SubSeq(q, 1, i - 1) \o SubSeq(q, i + 1, Len(q))

Cache(mapping, queue) == [mapping |-> mapping, queue |-> queue]

TheCache == Cache(lru_mapping, lru_queue)

Idle == [op |-> "<idle>"]

\* A call that has taken the lock and is about to run its first statement.
Frame(op, key, value) ==
    [op |-> op, key |-> key, value |-> value,
     pc |-> CASE op = "getitem" -> "g1" [] op = "setitem" -> "s1" [] op = "delitem" -> "d1",
     rv |-> "<None>", exc |-> "<None>"]

Raise(c, f, exc) == [c |-> c, f |-> [f EXCEPT !.exc = exc, !.pc = "exit"]]

Goto(c, f, pc) == [c |-> c, f |-> [f EXCEPT !.pc = pc]]

\* LRUCache.__getitem__ that returns the value and leaves the queue alone.
getitem_step_NoMove(c, f, capacity) ==
    CASE f.pc = "g1" ->
           IF f.key \in DOMAIN c.mapping
           THEN [c |-> c, f |-> [f EXCEPT !.rv = c.mapping[f.key], !.pc = "exit"]]
           ELSE Raise(c, f, "KeyError")

\* One statement of LRUCache.__getitem__ inside the with block.
getitem_step(c, f, capacity) ==
    CASE f.pc = "g1" ->
           IF f.key \in DOMAIN c.mapping
           THEN [c |-> c, f |-> [f EXCEPT !.rv = c.mapping[f.key], !.pc = "g2"]]
           ELSE Raise(c, f, "KeyError")
      [] f.pc = "g2" ->
           IF c.queue = <<>> THEN Raise(c, f, "IndexError")
           ELSE IF c.queue[Len(c.queue)] # f.key THEN Goto(c, f, "g3")
           ELSE Goto(c, f, "exit")
      [] f.pc = "g3" ->
           Goto(IF InQueue(c.queue, f.key)
                THEN [c EXCEPT !.queue = queue_remove(c.queue, f.key)]
                ELSE c, f, "g4")
      [] f.pc = "g4" ->
           Goto([c EXCEPT !.queue = Append(c.queue, f.key)], f, "exit")

\* One statement of LRUCache.__setitem__ inside the with block.
setitem_step(c, f, capacity) ==
    CASE f.pc = "s1" ->
           IF f.key \in DOMAIN c.mapping THEN Goto(c, f, "s2")
           ELSE IF Cardinality(DOMAIN c.mapping) = capacity THEN Goto(c, f, "s3")
           ELSE Goto(c, f, "s4")
      [] f.pc = "s2" ->
           IF InQueue(c.queue, f.key)
           THEN Goto([c EXCEPT !.queue = queue_remove(c.queue, f.key)], f, "s4")
           ELSE Raise(c, f, "ValueError")
      [] f.pc = "s3" ->
           IF c.queue = <<>> THEN Raise(c, f, "IndexError")
           ELSE IF Head(c.queue) \notin DOMAIN c.mapping
           THEN Raise([c EXCEPT !.queue = Tail(c.queue)], f, "KeyError")
           ELSE Goto([c EXCEPT !.queue = Tail(c.queue),
                               !.mapping = MapDel(c.mapping, Head(c.queue))], f, "s4")
      [] f.pc = "s4" ->
           Goto([c EXCEPT !.queue = Append(c.queue, f.key)], f, "s5")
      [] f.pc = "s5" ->
           Goto([c EXCEPT !.mapping = MapSet(c.mapping, f.key, f.value)], f, "exit")

\* LRUCache.__delitem__ that deletes from the mapping and leaves the queue alone.
delitem_step_KeepsQueue(c, f, capacity) ==
    CASE f.pc = "d1" ->
           IF f.key \in DOMAIN c.mapping
           THEN Goto([c EXCEPT !.mapping = MapDel(c.mapping, f.key)], f, "exit")
           ELSE Raise(c, f, "KeyError")

\* One statement of LRUCache.__delitem__ inside the with block.
delitem_step(c, f, capacity) ==
    CASE f.pc = "d1" ->
           IF f.key \in DOMAIN c.mapping
           THEN Goto([c EXCEPT !.mapping = MapDel(c.mapping, f.key)], f, "d2")
           ELSE Raise(c, f, "KeyError")
      [] f.pc = "d2" ->
           Goto(IF InQueue(c.queue, f.key)
                THEN [c EXCEPT !.queue = queue_remove(c.queue, f.key)]
                ELSE c, f, "exit")

cache_step(c, f, capacity) ==
    CASE f.op = "getitem" -> getitem_step(c, f, capacity)
      [] f.op = "setitem" -> setitem_step(c, f, capacity)
      [] f.op = "delitem" -> delitem_step(c, f, capacity)

\* A whole call, from its first statement to the end of the with block.
RECURSIVE cache_call(_, _, _)
cache_call(c, f, capacity) ==
    IF f.pc = "exit" THEN [c |-> c, f |-> f]
    ELSE cache_call(cache_step(c, f, capacity).c, cache_step(c, f, capacity).f, capacity)

\* The calls a thread can make on the cache.
Calls ==
    {Frame("getitem", k, "<None>") : k \in Keys}
        \cup {Frame("setitem", k, v) : k \in Keys, v \in Values}
        \cup {Frame("delitem", k, "<None>") : k \in Keys}

\* The order of last access (by a successful __getitem__ or __setitem__) and
\* the order of insertion of the keys now in the cache, kept beside the cache.
Restrict(r, S) == SelectSeq(r, LAMBDA x : x \in S)

Touch(r, k) == Append(SelectSeq(r, LAMBDA x : x # k), k)

RecencyAfter(r, before, f, after) ==
    LET ok == f.exc = "<None>" /\ f.op \in {"getitem", "setitem"}
        new == f.exc = "<None>" /\ f.op = "setitem" /\ f.key \notin DOMAIN before.mapping
    IN  [accessed |-> Restrict(IF ok THEN Touch(r.accessed, f.key) ELSE r.accessed,
                               DOMAIN after.mapping),
         inserted |-> Restrict(IF new THEN Append(r.inserted, f.key) ELSE r.inserted,
                               DOMAIN after.mapping)]

NoCacheCall ==
    [op |-> "<none>", key |-> 0, value |-> "<None>", rv |-> "<None>", exc |-> "<None>",
     before |-> Cache(EmptyMap, <<>>), recency |-> [accessed |-> <<>>, inserted |-> <<>>]]

Completed(f, before, r) ==
    [op |-> f.op, key |-> f.key, value |-> f.value, rv |-> f.rv, exc |-> f.exc,
     before |-> before, recency |-> r]

\* A whole call made while no other call is running.
CacheCall(f) ==
    LET r == cache_call(TheCache, f, lru_capacity)
    IN  /\ lru_mapping' = r.c.mapping
        /\ lru_queue' = r.c.queue
        /\ lru_last' = Completed(r.f, TheCache, lru_recency)
        /\ lru_recency' = RecencyAfter(lru_recency, TheCache, r.f, r.c)
        /\ UNCHANGED <<lru_capacity, lru_lock, lru_frame>>
        /\ UNCHANGED OtherThanCache

CacheGetItem == \E k \in Keys : CacheCall(Frame("getitem", k, "<None>"))

CacheSetItem == \E k \in Keys, v \in Values : CacheCall(Frame("setitem", k, v))

CacheDelItem == \E k \in Keys : CacheCall(Frame("delitem", k, "<None>"))

\* LRUCache.__contains__: no lock, no change to the cache.
CacheContains ==
    \E k \in Keys :
        /\ lru_last' = [NoCacheCall EXCEPT
                            !.op = "contains", !.key = k,
                            !.rv = IF k \in DOMAIN lru_mapping THEN "True" ELSE "False",
                            !.before = TheCache, !.recency = lru_recency]
        /\ UNCHANGED <<lru_capacity, lru_mapping, lru_queue, lru_lock, lru_frame,
                       lru_recency>>
        /\ UNCHANGED OtherThanCache

CacheInit ==
    /\ lru_capacity \in 1..MaxCapacity
    /\ lru_mapping = EmptyMap
    /\ lru_queue = <<>>
    /\ lru_lock = Free
    /\ lru_frame = [t \in Threads |-> Idle]
    /\ lru_last = NoCacheCall
    /\ lru_recency = [accessed |-> <<>>, inserted |-> <<>>]

CacheIdle ==
    /\ lru_capacity = 1
    /\ lru_mapping = EmptyMap
    /\ lru_queue = <<>>
    /\ lru_lock = Free
    /\ lru_frame = [t \in Threads |-> Idle]
    /\ lru_last = NoCacheCall
    /\ lru_recency = [accessed |-> <<>>, inserted |-> <<>>]

CacheNext == CacheGetItem \/ CacheSetItem \/ CacheDelItem \/ CacheContains

\* Several threads: `with self._wlock` waits until the lock is free and takes
\* it; the statements of the body are separate steps; leaving the with block
\* (by return or by exception) frees the lock.
ThreadEnter_NoLock(t) ==
    /\ lru_frame[t] = Idle
    /\ \E f \in Calls : lru_frame' = [lru_frame EXCEPT ![t] = f]
    /\ lru_lock' = t
    /\ UNCHANGED <<lru_capacity, lru_mapping, lru_queue, lru_last, lru_recency>>
    /\ UNCHANGED OtherThanCache

ThreadEnter(t) ==
    /\ lru_frame[t] = Idle
    /\ lru_lock = Free
    /\ \E f \in Calls : lru_frame' = [lru_frame EXCEPT ![t] = f]
    /\ lru_lock' = t
    /\ UNCHANGED <<lru_capacity, lru_mapping, lru_queue, lru_last, lru_recency>>
    /\ UNCHANGED OtherThanCache

ThreadStep(t) ==
    /\ lru_frame[t] # Idle
    /\ lru_frame[t].pc # "exit"
    /\ LET r == cache_step(TheCache, lru_frame[t], lru_capacity)
       IN  /\ lru_mapping' = r.c.mapping
           /\ lru_queue' = r.c.queue
           /\ lru_frame' = [lru_frame EXCEPT ![t] = r.f]
    /\ UNCHANGED <<lru_capacity, lru_lock, lru_last, lru_recency>>
    /\ UNCHANGED OtherThanCache

ThreadExit(t) ==
    /\ lru_frame[t] # Idle
    /\ lru_frame[t].pc = "exit"
    /\ lru_frame' = [lru_frame EXCEPT ![t] = Idle]
    /\ lru_lock' = Free
    /\ UNCHANGED <<lru_capacity, lru_mapping, lru_queue, lru_last, lru_recency>>
    /\ UNCHANGED OtherThanCache

ThreadsEnter == \E t \in Threads : ThreadEnter(t)

ThreadsStep == \E t \in Threads : ThreadStep(t)

ThreadsExit == \E t \in Threads : ThreadExit(t)

ThreadsNext == ThreadsEnter \/ ThreadsStep \/ ThreadsExit

----------------------------------------------------------------------------
(* Macro *)

PyNone == "<None>"

missing == "<missing>"

\* self._environment.undefined('No caller defined', name='caller')
UndefinedCaller == "<Undefined caller>"

EvalContexts == {"<EvalContext autoescape=True>", "<EvalContext autoescape=False>"}

EmptyKw == [k \in {} |-> PyNone]

KwDel(kw, names) == [k \in DOMAIN kw \ names |-> kw[k]]

\* The elements of the list handed to the macro function: a plain value, the
\* dict of keyword arguments, or the tuple of extra positional arguments.
ValueSlot(v) == [kind |-> "value", value |-> v, kwargs |-> EmptyKw, varargs |-> <<>>]

KwargsSlot(kw) == [kind |-> "kwargs", value |-> PyNone, kwargs |-> kw, varargs |-> <<>>]

VarargsSlot(t) == [kind |-> "varargs", value |-> PyNone, kwargs |-> EmptyKw, varargs |-> t]

\* Macro.__init__
Macro(arguments, catch_kwargs, catch_varargs, caller, default_autoescape) ==
    [argument_count |-> Len(arguments),
     arguments |-> arguments,
     catch_kwargs |-> catch_kwargs,
     catch_varargs |-> catch_varargs,
     caller |-> caller,
     explicit_caller |-> \E i \in 1..Len(arguments) : arguments[i] = "caller",
     default_autoescape |-> default_autoescape]

Returned(arguments, autoescape) ==
    [exc |-> PyNone, msg |-> PyNone, arguments |-> arguments, autoescape |-> autoescape]

Raised(exc, msg) ==
    [exc |-> exc, msg |-> msg, arguments |-> <<>>, autoescape |-> FALSE]

Prefix(s, n) == SubSeq(s, 1, IF n < Len(s) THEN n ELSE Len(s))

From(s, n) == SubSeq(s, n + 1, Len(s))

\* Macro.__call__ without the check of extra positional arguments.
Macro_call_NoArgCheck(self, args0, kwargs0) ==
    LET hasctx == args0 # <<>> /\ args0[1] \in EvalContexts
        autoescape == IF hasctx THEN args0[1] = "<EvalContext autoescape=True>"
                      ELSE self.default_autoescape
        args == IF hasctx THEN Tail(args0) ELSE args0
        positional == Prefix(args, self.argument_count)
        off == Len(positional)
        rest == From(self.arguments, off)
        popped == [i \in 1..Len(rest) |->
                      IF rest[i] \in DOMAIN kwargs0 THEN kwargs0[rest[i]] ELSE missing]
        kwargs1 == KwDel(kwargs0, {rest[i] : i \in 1..Len(rest)})
        found_caller == IF off # self.argument_count
                        THEN \E i \in 1..Len(rest) : rest[i] = "caller"
                        ELSE self.explicit_caller
        add_caller == self.caller /\ ~found_caller
        caller == IF "caller" \in DOMAIN kwargs1 /\ kwargs1["caller"] # PyNone
                  THEN kwargs1["caller"] ELSE UndefinedCaller
        kwargs == IF add_caller THEN KwDel(kwargs1, {"caller"}) ELSE kwargs1
        arguments1 == [i \in 1..(off + Len(rest)) |->
                          ValueSlot(IF i <= off THEN positional[i] ELSE popped[i - off])]
        arguments2 == IF add_caller THEN Append(arguments1, ValueSlot(caller))
                      ELSE arguments1
        arguments3 == IF self.catch_kwargs THEN Append(arguments2, KwargsSlot(kwargs))
                      ELSE arguments2
        arguments4 == IF self.catch_varargs
                      THEN Append(arguments3, VarargsSlot(From(args, self.argument_count)))
                      ELSE arguments3
    IN  IF ~self.catch_kwargs /\ DOMAIN kwargs # {}
        THEN IF "caller" \in DOMAIN kwargs
             THEN Raised("TypeError", "two values for the special caller argument")
             ELSE Raised("TypeError", "takes no keyword argument")
        ELSE Returned(arguments4, autoescape)

\* Macro.__call__: the list of arguments handed to self._invoke, or the error.
Macro_call(self, args0, kwargs0) ==
    LET hasctx == args0 # <<>> /\ args0[1] \in EvalContexts
        autoescape == IF hasctx THEN args0[1] = "<EvalContext autoescape=True>"
                      ELSE self.default_autoescape
        args == IF hasctx THEN Tail(args0) ELSE args0
        positional == Prefix(args, self.argument_count)
        off == Len(positional)
        rest == From(self.arguments, off)
        popped == [i \in 1..Len(rest) |->
                      IF rest[i] \in DOMAIN kwargs0 THEN kwargs0[rest[i]] ELSE missing]
        kwargs1 == KwDel(kwargs0, {rest[i] : i \in 1..Len(rest)})
        found_caller == IF off # self.argument_count
                        THEN \E i \in 1..Len(rest) : rest[i] = "caller"
                        ELSE self.explicit_caller
        add_caller == self.caller /\ ~found_caller
        caller == IF "caller" \in DOMAIN kwargs1 /\ kwargs1["caller"] # PyNone
                  THEN kwargs1["caller"] ELSE UndefinedCaller
        kwargs == IF add_caller THEN KwDel(kwargs1, {"caller"}) ELSE kwargs1
        arguments1 == [i \in 1..(off + Len(rest)) |->
                          ValueSlot(IF i <= off THEN positional[i] ELSE popped[i - off])]
        arguments2 == IF add_caller THEN Append(arguments1, ValueSlot(caller))
                      ELSE arguments1
        arguments3 == IF self.catch_kwargs THEN Append(arguments2, KwargsSlot(kwargs))
                      ELSE arguments2
        arguments4 == IF self.catch_varargs
                      THEN Append(arguments3, VarargsSlot(From(args, self.argument_count)))
                      ELSE arguments3
    IN  IF ~self.catch_kwargs /\ DOMAIN kwargs # {}
        THEN IF "caller" \in DOMAIN kwargs
             THEN Raised("TypeError", "two values for the special caller argument")
             ELSE Raised("TypeError", "takes no keyword argument")
        ELSE IF ~self.catch_varargs /\ Len(args) > self.argument_count
        THEN Raised("TypeError", "takes not more than")
        ELSE Returned(arguments4, autoescape)

\* The macros and the calls that are tried.
ParamNames == {"a", "b", "caller"}

KwNames == {"a", "b", "caller", "z"}

Injective(q) == \A i, j \in 1..Len(q) : q[i] = q[j] => i = j

ParamLists ==
    UNION {{q \in [1..n -> ParamNames] : Injective(q)} : n \in 0..MaxParams}

Macros ==
    {Macro(q, ck, cv, c, d) : q \in ParamLists, ck \in BOOLEAN, cv \in BOOLEAN,
                              c \in BOOLEAN, d \in BOOLEAN}

\* The i-th positional argument is "p<i>".
PositionalValues == <<"p1", "p2", "p3", "p4", "p5", "p6">>

ArgLists ==
    UNION {{Prefix(PositionalValues, n)} \cup
           {<<e>> \o Prefix(PositionalValues, n - 1) : e \in (IF n > 0 THEN EvalContexts ELSE {})}
           : n \in 0..MaxArgs}

\* The keyword argument of name n is "k<n>"; caller may also be passed as None.
KwValues(n) ==
    CASE n = "a" -> {"ka"} [] n = "b" -> {"kb"} [] n = "z" -> {"kz"}
      [] n = "caller" -> {"kcaller", PyNone}

KwDicts ==
    UNION {{kw \in [S -> {"ka", "kb", "kz", "kcaller", PyNone}] :
               \A n \in S : kw[n] \in KwValues(n)} : S \in SUBSET KwNames}

NotCalled == [exc |-> "<not called>", msg |-> PyNone, arguments |-> <<>>, autoescape |-> FALSE]

MacroCall ==
    /\ mc_result = NotCalled
    /\ mc_result' = Macro_call(mc_macro, mc_args, mc_kwargs)
    /\ UNCHANGED <<mc_macro, mc_args, mc_kwargs>>
    /\ UNCHANGED OtherThanMacro

MacroInit ==
    /\ mc_macro \in Macros
    /\ mc_args \in ArgLists
    /\ mc_kwargs \in KwDicts
    /\ mc_result = NotCalled

MacroIdle ==
    /\ mc_macro = Macro(<<>>, FALSE, FALSE, FALSE, FALSE)
    /\ mc_args = <<>>
    /\ mc_kwargs = EmptyKw
    /\ mc_result = NotCalled

MacroNext == MacroCall

----------------------------------------------------------------------------
(* AST nodes *)

\* A node: its class name, its name or key (for Name and Keyword), its ctx
\* (for Name), its child nodes in field order, and its keyword entries (for
\* Call, Filter and Test).
Node(type, name, ctx, kids, kwargs) ==
    [type |-> type, name |-> name, kwargs |-> kwargs, ctx |-> ctx, kids |-> kids]

Name(name, ctx) == Node("Name", name, ctx, <<>>, <<>>)

Const(value) == Node("Const", value, "", <<>>, <<>>)

Tuple(items) == Node("Tuple", "", "store", items, <<>>)

\* Assign: target, node
Assign(target, node) == Node("Assign", "", "", <<target, node>>, <<>>)

\* For: target, iter, body
For(target, iter, body) == Node("For", "", "", <<target, iter>> \o body, <<>>)

\* AssignBlock: target, body
AssignBlock(target, body) == Node("AssignBlock", "", "", <<target>> \o body, <<>>)

\* If: test, body
If(test, body) == Node("If", "", "", <<test>> \o body, <<>>)

Output(exprs) == Node("Output", "", "", exprs, <<>>)

Scope(body) == Node("Scope", "", "", body, <<>>)

Block(name, body) == Node("Block", name, "", body, <<>>)

OverlayScope(body) == Node("OverlayScope", "", "", body, <<>>)

----------------------------------------------------------------------------
(* NodeVisitor and FrameSymbolVisitor *)

VAR_LOAD_PARAMETER == "param"

\* A call self.visit(node, **kwargs); store_as_param is FALSE when the
\* keyword is not passed.
Visit(node, store_as_param) == [node |-> node, store_as_param |-> store_as_param]

\* NodeVisitor.get_visitor: the classes FrameSymbolVisitor has a visit_ method for.
FrameSymbolHandlers ==
    {"Name", "Assign", "For", "AssignBlock", "Scope", "Block", "OverlayScope"}

NoLoads == [k \in {} |-> VAR_LOAD_PARAMETER]

\* NodeVisitor.visit reaches the handler of the node's class: the calls the
\* handler makes take the place of this call, and the symbols change.
FsvHandle(calls, loads, stores) ==
    /\ fs_todo' = calls \o Tail(fs_todo)
    /\ fs_loads' = loads
    /\ fs_stores' = stores
    /\ fs_seen' = fs_seen \cup {fs_todo[1].node}
    /\ UNCHANGED fs_tree
    /\ UNCHANGED OtherThanSymbols

FsvAt(type) == fs_todo # <<>> /\ fs_todo[1].node.type = type

\* FrameSymbolVisitor.visit_Name
visit_Name_loads(node, store_as_param, loads) ==
    IF node.ctx = "store"
    THEN IF store_as_param THEN MapSet(loads, node.name, VAR_LOAD_PARAMETER) ELSE loads
    ELSE IF node.ctx = "param" THEN MapSet(loads, node.name, VAR_LOAD_PARAMETER)
    ELSE loads

visit_Name_stores(node, stores) ==
    IF node.ctx = "store" THEN stores \cup {node.name} ELSE stores

FsvName ==
    /\ FsvAt("Name")
    /\ FsvHandle(<<>>,
                 visit_Name_loads(fs_todo[1].node, fs_todo[1].store_as_param, fs_loads),
                 visit_Name_stores(fs_todo[1].node, fs_stores))

\* FrameSymbolVisitor.visit_Assign: node.node, then node.target
visit_Assign(node, store_as_param) ==
    <<Visit(node.kids[2], store_as_param), Visit(node.kids[1], store_as_param)>>

FsvAssign ==
    /\ FsvAt("Assign")
    /\ FsvHandle(visit_Assign(fs_todo[1].node, fs_todo[1].store_as_param),
                 fs_loads, fs_stores)

\* FrameSymbolVisitor.visit_For: node.iter, then node.target with
\* store_as_param=True.
visit_For(node, store_as_param) ==
    <<Visit(node.kids[2], store_as_param), Visit(node.kids[1], TRUE)>>

FsvFor ==
    /\ FsvAt("For")
    /\ FsvHandle(visit_For(fs_todo[1].node, fs_todo[1].store_as_param),
                 fs_loads, fs_stores)

\* FrameSymbolVisitor.visit_AssignBlock: node.target
visit_AssignBlock(node, store_as_param) ==
    <<Visit(node.kids[1], store_as_param)>>

FsvAssignBlock ==
    /\ FsvAt("AssignBlock")
    /\ FsvHandle(visit_AssignBlock(fs_todo[1].node, fs_todo[1].store_as_param),
                 fs_loads, fs_stores)

\* A visit_Block that goes on into the body of the block.
visit_Block_Descends(node, store_as_param) ==
    [i \in 1..Len(node.kids) |-> Visit(node.kids[i], store_as_param)]

\* FrameSymbolVisitor.visit_Scope, visit_Block, visit_OverlayScope: nothing.
visit_Scope(node, store_as_param) == <<>>

visit_Block(node, store_as_param) == <<>>

visit_OverlayScope(node, store_as_param) == <<>>

FsvScope ==
    /\ FsvAt("Scope")
    /\ FsvHandle(visit_Scope(fs_todo[1].node, fs_todo[1].store_as_param),
                 fs_loads, fs_stores)

FsvBlock ==
    /\ FsvAt("Block")
    /\ FsvHandle(visit_Block(fs_todo[1].node, fs_todo[1].store_as_param),
                 fs_loads, fs_stores)

FsvOverlayScope ==
    /\ FsvAt("OverlayScope")
    /\ FsvHandle(visit_OverlayScope(fs_todo[1].node, fs_todo[1].store_as_param),
                 fs_loads, fs_stores)

\* NodeVisitor.generic_visit: returns the node.
generic_visit(node, store_as_param) == <<>>

\* NodeVisitor.visit of a node whose class has no handler.
FsvGeneric ==
    /\ fs_todo # <<>>
    /\ fs_todo[1].node.type \notin FrameSymbolHandlers
    /\ FsvHandle(generic_visit(fs_todo[1].node, fs_todo[1].store_as_param),
                 fs_loads, fs_stores)

\* The trees that are visited.
VarNames == {"x", "y"}

Exprs == {Name(n, "load") : n \in VarNames} \cup {Const("1")}

Targets ==
    {Name(n, "store") : n \in VarNames}
        \cup {Tuple(<<Name("x", "store"), Name("y", "store")>>)}

Nested(inner) ==
    inner
      \cup {For(t, e, <<b>>) : t \in Targets, e \in Exprs, b \in inner}
      \cup {AssignBlock(t, <<b>>) : t \in Targets, b \in inner}
      \cup {If(e, <<b>>) : e \in Exprs, b \in inner}
      \cup {Scope(<<b>>) : b \in inner}
      \cup {Block("b", <<b>>) : b \in inner}
      \cup {OverlayScope(<<b>>) : b \in inner}

RECURSIVE Stmts(_)
Stmts(d) ==
    IF d = 0
    THEN {Assign(t, e) : t \in Targets, e \in Exprs} \cup {Output(<<e>>) : e \in Exprs}
    ELSE Nested(Stmts(d - 1))

SymbolsInit ==
    /\ fs_tree \in Stmts(MaxNesting)
    /\ fs_todo = <<Visit(fs_tree, FALSE)>>
    /\ fs_loads = NoLoads
    /\ fs_stores = {}
    /\ fs_seen = {}

SymbolsIdle ==
    /\ fs_tree = Const("")
    /\ fs_todo = <<>>
    /\ fs_loads = NoLoads
    /\ fs_stores = {}
    /\ fs_seen = {}

SymbolsNext ==
    \/ FsvName
    \/ FsvAssign
    \/ FsvFor
    \/ FsvAssignBlock
    \/ FsvScope
    \/ FsvBlock
    \/ FsvOverlayScope
    \/ FsvGeneric

----------------------------------------------------------------------------
(* Context *)

\* The names looked up and the values stored under them.
CtxKeys == {"a", "b"}

CtxValues == {"1", "2"}

\* The dicts over CtxKeys.
CtxDicts == UNION {[D -> CtxValues] : D \in SUBSET CtxKeys}

NoDict == [k \in {} |-> "1"]

\* What a call did: the value it returned, or the exception it raised.
CtxReturn(op, key, value) == [value |-> value, key |-> key, op |-> op, raised |-> ""]

CtxRaise(op, key, cls) == [value |-> PyNone, key |-> key, op |-> op, raised |-> cls]

NoCtxCall == CtxReturn("", "", PyNone)

\* Context.resolve_or_missing: the body is `pass`, the call returns None.
resolve_or_missing(parent, vars_, key) == PyNone

\* Context.__contains__
Context_contains(parent, vars_, name) ==
    name \in DOMAIN vars_ \/ name \in DOMAIN parent

\* Context.__getitem__
Context_getitem_of(item, key) ==
    IF item = missing
    THEN CtxRaise("getitem", key, "KeyError")
    ELSE CtxReturn("getitem", key, item)

Context_getitem(parent, vars_, key) ==
    Context_getitem_of(resolve_or_missing(parent, vars_, key), key)

CtxCall(last) ==
    /\ cx_last' = last
    /\ UNCHANGED <<cx_parent, cx_vars>>
    /\ UNCHANGED OtherThanContext

CtxResolveOrMissing ==
    \E key \in CtxKeys :
        CtxCall(CtxReturn("resolve_or_missing", key,
                          resolve_or_missing(cx_parent, cx_vars, key)))

CtxGetitem ==
    \E key \in CtxKeys :
        CtxCall(Context_getitem(cx_parent, cx_vars, key))

CtxContains ==
    \E name \in CtxKeys :
        CtxCall(CtxReturn("contains", name,
                          Context_contains(cx_parent, cx_vars, name)))

\* Generated template code assigns to context.vars.
CtxSetVar ==
    \E key \in CtxKeys, value \in CtxValues :
        /\ cx_vars' = MapSet(cx_vars, key, value)
        /\ cx_last' = CtxReturn("setvar", key, PyNone)
        /\ UNCHANGED cx_parent
        /\ UNCHANGED OtherThanContext

\* Context.__init__
ContextInit ==
    /\ cx_parent \in CtxDicts
    /\ cx_vars = NoDict
    /\ cx_last = NoCtxCall

ContextIdle ==
    /\ cx_parent = NoDict
    /\ cx_vars = NoDict
    /\ cx_last = NoCtxCall

ContextNext ==
    \/ CtxResolveOrMissing
    \/ CtxGetitem
    \/ CtxContains
    \/ CtxSetVar

----------------------------------------------------------------------------
(* LoopContext *)

\* The items of the iterables that are looped over.
LoopItems == {"a", "b"}

RECURSIVE SeqsUpTo(_, _)
SeqsUpTo(S, n) ==
    IF n = 0 THEN {<<>>}
    ELSE SeqsUpTo(S, n - 1)
           \cup {Append(s, x) : s \in {t \in SeqsUpTo(S, n - 1) : Len(t) = n - 1}, x \in S}

\* The state of a LoopContext with the outcome of a call on it.
LoopState(raised, rv, iterator, after, index0, before, current) ==
    [current |-> current, rv |-> rv, before |-> before, after |-> after,
     raised |-> raised, iterator |-> iterator, index0 |-> index0]

\* LoopContext.__next__ that never looks at _after.
LoopContext_next_IgnoresAfter(iterator, after, index0, before, current) ==
    IF iterator = <<>>
    THEN LoopState("StopIteration", <<>>, iterator, after, index0, before, current)
    ELSE LoopState("", <<Head(iterator), "self">>, Tail(iterator), after,
                   index0 + 1, current, Head(iterator))

\* LoopContext.__next__: rv is _after when one item was fetched ahead, else
\* next(self._iterator), which may raise StopIteration before anything is
\* assigned; the call returns (rv, self).
LoopContext_next(iterator, after, index0, before, current) ==
    IF after # missing
    THEN LoopState("", <<after, "self">>, iterator, missing,
                   index0 + 1, current, after)
    ELSE IF iterator = <<>>
    THEN LoopState("StopIteration", <<>>, iterator, after, index0, before, current)
    ELSE LoopState("", <<Head(iterator), "self">>, Tail(iterator), after,
                   index0 + 1, current, Head(iterator))

\* LoopContext._peek_next: the item after the current one, fetched from the
\* iterator once and kept in _after, or missing when the iterator is exhausted.
LoopContext_peek_next(iterator, after, index0, before, current) ==
    IF after # missing
    THEN LoopState("", after, iterator, after, index0, before, current)
    ELSE IF iterator = <<>>
    THEN LoopState("", missing, iterator, missing, index0, before, current)
    ELSE LoopState("", Head(iterator), Tail(iterator), Head(iterator),
                   index0, before, current)

LoopCall(op, r) ==
    /\ lp_iterator' = r.iterator
    /\ lp_after' = r.after
    /\ lp_index0' = r.index0
    /\ lp_before' = r.before
    /\ lp_current' = r.current
    /\ lp_returned' = IF op = "next" /\ r.raised = ""
                      THEN Append(lp_returned, r.rv[1]) ELSE lp_returned
    /\ lp_last' = [rv |-> r.rv, op |-> op, after |-> lp_after,
                   raised |-> r.raised, index0 |-> lp_index0]
    /\ UNCHANGED lp_iterable
    /\ UNCHANGED OtherThanLoop

LoopNext ==
    LoopCall("next", LoopContext_next(lp_iterator, lp_after, lp_index0,
                                      lp_before, lp_current))

LoopPeekNext ==
    LoopCall("_peek_next", LoopContext_peek_next(lp_iterator, lp_after, lp_index0,
                                                 lp_before, lp_current))

NoLoopCall == [rv |-> <<>>, op |-> "", after |-> missing, raised |-> "", index0 |-> -1]

\* The class attributes and LoopContext.__init__
LoopInit ==
    /\ lp_iterable \in SeqsUpTo(LoopItems, MaxItems)
    /\ lp_iterator = lp_iterable
    /\ lp_after = missing
    /\ lp_index0 = -1
    /\ lp_current = missing
    /\ lp_before = missing
    /\ lp_returned = <<>>
    /\ lp_last = NoLoopCall

LoopIdle ==
    /\ lp_iterable = <<>>
    /\ lp_iterator = <<>>
    /\ lp_after = missing
    /\ lp_index0 = -1
    /\ lp_current = missing
    /\ lp_before = missing
    /\ lp_returned = <<>>
    /\ lp_last = NoLoopCall

LoopContextNext ==
    \/ LoopNext
    \/ LoopPeekNext

----------------------------------------------------------------------------
(* Undefined *)

\* Undefined.__init__
Undefined(hint, obj, name, exc) == [name |-> name, exc |-> exc, hint |-> hint, obj |-> obj]

\* The special methods bound to _fail_with_undefined_error.
ArithmeticMethods ==
    {"__add__", "__radd__", "__sub__", "__rsub__", "__mul__", "__rmul__",
     "__truediv__", "__rtruediv__", "__floordiv__", "__rfloordiv__",
     "__mod__", "__rmod__", "__pow__", "__rpow__"}

UnaryMethods == {"__pos__", "__neg__"}

ComparisonMethods == {"__lt__", "__le__", "__gt__", "__ge__"}

ConversionMethods == {"__int__", "__float__", "__complex__"}

\* The other operand of a binary operation, the subscript, the call's argument.
Operands == {"1", "x"}

UndefReturn(kind, method, value) ==
    [value |-> value, kind |-> kind, raised |-> "", method |-> method]

UndefRaise(kind, method, cls) ==
    [value |-> PyNone, kind |-> kind, raised |-> cls, method |-> method]

NoUndefOp == UndefReturn("", "", PyNone)

\* A special method returned None.
ReturnedNone == UndefReturn("", "", PyNone)

\* Undefined._fail_with_undefined_error: the body is `pass`, the call
\* returns None whatever its arguments are.
fail_with_undefined_error(self, args) == ReturnedNone

\* An operator of the language applied to the object: the outcome of the
\* special method is the outcome of the operation.
Operate(kind, method, r) ==
    [value |-> r.value, kind |-> kind, raised |-> r.raised, method |-> method]

\* int(), float() and complex() raise TypeError when the special method
\* returns a value that is not a number.
Convert(method, r) ==
    IF r.raised = "" /\ r.value = PyNone
    THEN UndefRaise("conversion", method, "TypeError")
    ELSE Operate("conversion", method, r)

UndefOp(last) ==
    /\ ud_last' = last
    /\ UNCHANGED ud_self
    /\ UNCHANGED OtherThanUndefined

UndefArithmetic ==
    \E method \in ArithmeticMethods, other \in Operands :
        UndefOp(Operate("arithmetic", method,
                        fail_with_undefined_error(ud_self, <<other>>)))

UndefUnary ==
    \E method \in UnaryMethods :
        UndefOp(Operate("arithmetic", method,
                        fail_with_undefined_error(ud_self, <<>>)))

UndefComparison ==
    \E method \in ComparisonMethods, other \in Operands :
        UndefOp(Operate("comparison", method,
                        fail_with_undefined_error(ud_self, <<other>>)))

UndefGetitem ==
    \E key \in Operands :
        UndefOp(Operate("subscript", "__getitem__",
                        fail_with_undefined_error(ud_self, <<key>>)))

\* *args of a call of the object
UndefCallArgs == {<<>>} \cup {<<a>> : a \in Operands}

UndefCall ==
    \E args \in UndefCallArgs :
        UndefOp(Operate("call", "__call__",
                        fail_with_undefined_error(ud_self, args)))

UndefConversion ==
    \E method \in ConversionMethods :
        UndefOp(Convert(method, fail_with_undefined_error(ud_self, <<>>)))

UndefinedInit ==
    /\ ud_self \in {Undefined(hint, obj, name, exc) :
                       hint \in {PyNone, "hint"}, obj \in {missing, "obj"},
                       name \in {PyNone, "foo"},
                       exc \in {"UndefinedError", "TemplateRuntimeError"}}
    /\ ud_last = NoUndefOp

UndefinedIdle ==
    /\ ud_self = Undefined(PyNone, missing, PyNone, "UndefinedError")
    /\ ud_last = NoUndefOp

UndefinedNext ==
    \/ UndefArithmetic
    \/ UndefUnary
    \/ UndefComparison
    \/ UndefGetitem
    \/ UndefCall
    \/ UndefConversion

----------------------------------------------------------------------------
(* Optimizer *)

\* Expression nodes. Call, Filter and Test: node, then args, as kids.
List(items) == Node("List", "", "", items, <<>>)

\* Dict: items, each a Pair node or a 2-tuple (key, value)
Dict(items) == Node("Dict", "", "", items, <<>>)

Pair(key, value) == Node("Pair", "", "", <<key, value>>, <<>>)

Pair2(key, value) == Node("<tuple>", "", "", <<key, value>>, <<>>)

\* An entry of kwargs: a Keyword node or a 2-tuple (key, value)
Keyword(key, value) == Node("Keyword", key, "", <<value>>, <<>>)

Keyword2(key, value) == Node("<tuple>", key, "", <<value>>, <<>>)

Getitem(node, arg) == Node("Getitem", "", "", <<node, arg>>, <<>>)

Getattr(node, attr) == Node("Getattr", attr, "", <<node>>, <<>>)

Call(node, args, kwargs) == Node("Call", "", "", <<node>> \o args, kwargs)

Filter(node, name, args, kwargs) == Node("Filter", name, "", <<node>> \o args, kwargs)

Test(node, name, args, kwargs) == Node("Test", name, "", <<node>> \o args, kwargs)

CondExpr(test, expr1, expr2) == Node("CondExpr", "", "", <<test, expr1, expr2>>, <<>>)

Add(left, right) == Node("Add", "", "", <<left, right>>, <<>>)

\* What a visit leaves: the node as it is after the visit, and whether the
\* visit raised (TypeError) instead of returning it.
Visited(node, raised) == [node |-> node, raised |-> raised]

VisitedAll(nodes, raised) == [raised |-> raised, nodes |-> nodes]

\* The outcome of a comprehension over an empty list.
VisitedNone == VisitedAll(<<>>, FALSE)

\* `for key, value in ...`: a 2-tuple unpacks; a Pair or Keyword node does
\* when the node class is iterable.
CanUnpack(entry, unpack) == entry.type = "<tuple>" \/ unpack

\* A variant of the tuple built for an entry, with the key and the value of a
\* dict entry exchanged.
TupleOf_Swapped(entry) ==
    [entry EXCEPT !.type = "<tuple>",
                  !.kids = IF Len(entry.kids) = 2
                           THEN <<entry.kids[2], entry.kids[1]>> ELSE entry.kids]

\* The tuple (self.visit(key), self.visit(value)) or (key, self.visit(value))
\* built for an entry whose values were visited.
TupleOf(entry) == [entry EXCEPT !.type = "<tuple>"]

TuplesOf(entries) == [i \in 1..Len(entries) |-> TupleOf(entries[i])]

RECURSIVE Optimizer_visit(_, _)
RECURSIVE VisitEach(_, _)
RECURSIVE VisitEntries(_, _)

VisitEachRest(h, rest, unpack) ==
    IF h.raised
    THEN VisitedAll(<<h.node>> \o rest, TRUE)
    ELSE VisitedAll(<<h.node>> \o VisitEach(rest, unpack).nodes,
                    VisitEach(rest, unpack).raised)

\* [self.visit(item) for item in items]: the items as they are after their
\* visits, in order, up to the first visit that raises.
VisitEach(items, unpack) ==
    IF items = <<>>
    THEN VisitedNone
    ELSE VisitEachRest(Optimizer_visit(Head(items), unpack), Tail(items), unpack)

VisitEntry(entry, r) == Visited([entry EXCEPT !.kids = r.nodes], r.raised)

VisitEntriesRest(h, rest, unpack) ==
    IF h.raised
    THEN VisitedAll(<<h.node>> \o rest, TRUE)
    ELSE VisitedAll(<<h.node>> \o VisitEntries(rest, unpack).nodes,
                    VisitEntries(rest, unpack).raised)

\* The loop of `[(..., self.visit(value)) for key, value in entries]`: the
\* entries with their values as they are after their visits, up to the first
\* entry that does not unpack or whose visit raises.
VisitEntries(entries, unpack) ==
    IF entries = <<>>
    THEN VisitedNone
    ELSE IF ~CanUnpack(Head(entries), unpack)
    THEN VisitedAll(entries, TRUE)
    ELSE VisitEntriesRest(VisitEntry(Head(entries), VisitEach(Head(entries).kids, unpack)),
                          Tail(entries), unpack)

\* Optimizer.visit_Const
visit_Const(node) == Visited(node, FALSE)

\* Optimizer.visit_List; also visit_Getitem, visit_Getattr and visit_CondExpr,
\* which visit their child nodes in field order and assign each back.
visit_Fields(node, r) == Visited([node EXCEPT !.kids = r.nodes], r.raised)

\* Optimizer.visit_Dict: node.items is assigned the list of tuples unless the
\* comprehension raised.
visit_Dict(node, r) ==
    Visited([node EXCEPT !.kids = IF r.raised THEN r.nodes ELSE TuplesOf(r.nodes)],
            r.raised)

\* Optimizer.visit_Call, visit_Filter, visit_Test: node.node, node.args, then
\* node.kwargs.
visit_CallKwargs(node, r) ==
    Visited([node EXCEPT !.kwargs = IF r.raised THEN r.nodes ELSE TuplesOf(r.nodes)],
            r.raised)

visit_Call(node, r, unpack) ==
    IF r.raised
    THEN Visited([node EXCEPT !.kids = r.nodes], TRUE)
    ELSE visit_CallKwargs([node EXCEPT !.kids = r.nodes],
                          VisitEntries(node.kwargs, unpack))

\* NodeVisitor.visit with the handlers of Optimizer; a class without a
\* handler goes to generic_visit, which returns the node.
Optimizer_visit(node, unpack) ==
    CASE node.type = "Const" -> visit_Const(node)
      [] node.type \in {"List", "Getitem", "Getattr", "CondExpr"} ->
            visit_Fields(node, VisitEach(node.kids, unpack))
      [] node.type = "Dict" -> visit_Dict(node, VisitEntries(node.kids, unpack))
      [] node.type \in {"Call", "Filter", "Test"} ->
            visit_Call(node, VisitEach(node.kids, unpack), unpack)
      [] OTHER -> Visited(node, FALSE)

\* optimize(node, environment)
optimize(node, unpack) == Optimizer_visit(node, unpack)

OptCall(r) ==
    /\ op_node' = r.node
    /\ op_runs' = Append(op_runs, r)
    /\ UNCHANGED <<op_input, op_unpack>>
    /\ UNCHANGED OtherThanOptimizer

OptimizeReturns ==
    /\ Len(op_runs) < MaxRuns
    /\ ~optimize(op_node, op_unpack).raised
    /\ OptCall(optimize(op_node, op_unpack))

OptimizeRaises ==
    /\ Len(op_runs) < MaxRuns
    /\ optimize(op_node, op_unpack).raised
    /\ OptCall(optimize(op_node, op_unpack))

\* The expressions that are optimized.
OptLeaves == {Const("1"), Name("x", "load")}

OptWrap(inner) ==
    inner
      \cup {List(<<b>>) : b \in inner}
      \cup {List(<<Const("1"), b>>) : b \in inner}
      \cup {Dict(<<Pair(Const("k"), b)>>) : b \in inner}
      \cup {Dict(<<Pair2(b, Const("v")), Pair(Const("k"), Const("v"))>>) : b \in inner}
      \cup {Getitem(b, Const("0")) : b \in inner}
      \cup {Getitem(Name("x", "load"), b) : b \in inner}
      \cup {Getattr(b, "attr") : b \in inner}
      \cup {Call(b, <<>>, <<>>) : b \in inner}
      \cup {Call(Name("f", "load"), <<b>>, <<Keyword("k", Const("1"))>>) : b \in inner}
      \cup {Call(Name("f", "load"), <<>>, <<Keyword2("k", b)>>) : b \in inner}
      \cup {Filter(b, "upper", <<>>, <<Keyword("k", Const("1"))>>) : b \in inner}
      \cup {Test(b, "odd", <<Const("1")>>, <<>>) : b \in inner}
      \cup {CondExpr(b, Const("1"), Const("2")) : b \in inner}
      \cup {CondExpr(Const("1"), Const("2"), b) : b \in inner}
      \cup {Add(b, Const("1")) : b \in inner}

RECURSIVE OptExprs(_)
OptExprs(d) == IF d = 0 THEN OptLeaves ELSE OptWrap(OptExprs(d - 1))

OptimizerInit ==
    /\ op_input \in OptExprs(MaxExprDepth)
    /\ op_unpack \in BOOLEAN
    /\ op_node = op_input
    /\ op_runs = <<>>

OptimizerIdle ==
    /\ op_input = Const("")
    /\ op_unpack = FALSE
    /\ op_node = Const("")
    /\ op_runs = <<>>

OptimizerNext ==
    \/ OptimizeReturns
    \/ OptimizeRaises

----------------------------------------------------------------------------
(* Parser *)

MaxStmtTokens == 2

MaxResult == 2

statement_keywords ==
    {<<"for">>, <<"if">>, <<"block">>, <<"extends">>, <<"print">>, <<"macro">>,
     <<"include">>, <<"from">>, <<"import">>, <<"set">>, <<"with">>,
     <<"autoescape">>}

\* The parse_<keyword> methods that class Parser defines.
ParserMethods == {<<"set">>, <<"for">>, <<"if">>}

\* TokenStream defines __next__ and no method called next.
TokenStream_has_next == FALSE

TokenExpr(type, value) == [type |-> type, value |-> value]

\* An argument that is one str, a tuple of str, or None.
StrArg(expr) == [expr |-> expr, kind |-> "str", items |-> <<>>]

TupleArg(items) == [expr |-> TokenExpr("", None), kind |-> "tuple", items |-> items]

NoneArg == [expr |-> TokenExpr("", None), kind |-> "None", items |-> <<>>]

\* The str ":" as a token expression: it splits into an empty type and value.
ColonStr == TokenExpr("", <<>>)

NotRaised == [exc |-> PyNone, msg |-> PyNone, expected |-> NoneArg]

ParserReturn(rv) == [rv |-> rv, raised |-> NotRaised]

ParserRaise(exc, msg, expected) ==
    [rv |-> PyNone, raised |-> [exc |-> exc, msg |-> msg, expected |-> expected]]

\* Token.test(expr) for whatever object is passed as expr.
Token_test(token, expr) ==
    IF expr.kind = "str"
    THEN ParserReturn(TokenTest(token, expr.expr))
    ELSE IF \E i \in 1..Len(expr.items) : expr.items[i] = ColonStr
    THEN ParserRaise("AttributeError", "'tuple' object has no attribute 'split'",
                     NoneArg)
    ELSE ParserReturn(FALSE)

\* Token.test_any(*iterable): any(self.test(expr) for expr in iterable)
RECURSIVE Token_test_any(_, _)
Token_test_any_Rest(token, iterable, r) ==
    IF r.raised.exc # PyNone THEN r
    ELSE IF r.rv THEN r
    ELSE Token_test_any(token, Tail(iterable))

Token_test_any(token, iterable) ==
    IF iterable = <<>>
    THEN ParserReturn(FALSE)
    ELSE Token_test_any_Rest(token, iterable, Token_test(token, Head(iterable)))

\* Parser.fail
Parser_fail(msg, expected) == ParserRaise("TemplateSyntaxError", msg, expected)

\* Parser.fail_eof
fail_eof(end_tokens) ==
    IF end_tokens.kind # "None"
    THEN Parser_fail("Unexpected end of template. Expected", end_tokens)
    ELSE Parser_fail("Unexpected end of template.", NoneArg)

\* Parser.is_tuple_end
is_tuple_end(self, extra_end_rules) ==
    IF self.stream.current.type \in {"variable_end", "block_end", "rparen"}
    THEN ParserReturn(TRUE)
    ELSE IF extra_end_rules.kind # "None"
    THEN Token_test_any(self.stream.current, <<extra_end_rules>>)
    ELSE ParserReturn(FALSE)

\* Parser.parse_expression, parse_tuple, parse_set, parse_for, parse_if
parse_expression(self) == ParserReturn(PyNone)

parse_tuple(self) == ParserReturn(PyNone)

\* getattr(self, name)()
Parser_call_method(self, name, value) ==
    IF value \in ParserMethods
    THEN ParserReturn(PyNone)
    ELSE ParserRaise("AttributeError", name, NoneArg)

\* Parser.parse_statement
parse_statement(self) ==
    IF self.stream.current.type # "name"
    THEN parse_expression(self)
    ELSE IF self.stream.current.value \in statement_keywords
    THEN Parser_call_method(self, "parse_<keyword>", self.stream.current.value)
    ELSE IF self.stream.current.value = <<"call">>
    THEN Parser_call_method(self, "parse_call_block", <<"call_block">>)
    ELSE IF self.stream.current.value = <<"filter">>
    THEN Parser_call_method(self, "parse_filter_block", <<"filter_block">>)
    ELSE parse_expression(self)

\* What one pass through the loop of parse_statements leaves: where the call
\* is, the stream, the result list and what the call returned or raised.
LoopPass(pc, stream, result, r) ==
    [rv |-> r.rv, result |-> result, pc |-> pc, raised |-> r.raised,
     stream |-> stream]

\* parse_statements: the block_begin branch after self.stream.next().
parse_statements_block(self, st, result, end_tokens, drop_needle, t) ==
    IF t.raised.exc # PyNone
    THEN LoopPass("idle", st, result, t)
    ELSE IF t.rv
    THEN LoopPass("idle", IF drop_needle THEN stream_next(st).st ELSE st, result,
                  ParserReturn(result))
    ELSE LoopPass("loop", st,
                  Append(result, parse_statement([self EXCEPT !.stream = st]).rv),
                  ParserReturn(PyNone))

\* parse_statements: one pass through its while loop.
parse_statements_pass(self, result, end_tokens, drop_needle) ==
    IF self.stream.current.type = "data"
    THEN LoopPass("loop", self.stream,
                  Append(result, Output(<<parse_tuple(self).rv>>)),
                  ParserReturn(PyNone))
    ELSE IF self.stream.current.type = "block_begin"
    THEN IF ~TokenStream_has_next
         THEN LoopPass("idle", self.stream, result,
                       ParserRaise("AttributeError", "next", NoneArg))
         ELSE parse_statements_block(self, stream_next(self.stream).st, result,
                                     end_tokens, drop_needle,
                                     Token_test_any(stream_next(self.stream).st.current,
                                                    <<end_tokens>>))
    ELSE LoopPass("idle", self.stream, result, fail_eof(end_tokens))

ParserSelf == [stream |-> ps_stream, extensions |-> ps_extensions]

NoParserCall == [rv |-> PyNone, op |-> "none", arg |-> NoneArg, raised |-> NotRaised]

ParserCall(op, arg, r) == [rv |-> r.rv, op |-> op, arg |-> arg, raised |-> r.raised]

\* The tokens a template's token generator yields.
ParserTokens ==
    {Token(1, "data", <<"hi">>), Token(1, "block_begin", <<"{%">>),
     Token(1, "variable_begin", <<"{{">>), Token(1, "rparen", <<")">>),
     Token(1, "eof", <<>>)}
    \cup {Token(1, "name", v) :
             v \in {<<"for">>, <<"block">>, <<"call">>, <<"in">>, <<"endfor">>,
                    <<"mytag">>}}

\* The tuples of token expressions that callers pass.
ParserRules ==
    {TupleArg(<<TokenExpr("name", <<"endfor">>)>>),
     TupleArg(<<TokenExpr("name", <<"in">>)>>),
     TupleArg(<<TokenExpr("name", None), ColonStr>>)}

\* Parser.__init__
ParserInit ==
    /\ ps_stream \in {stream_init(g) : g \in SeqsUpTo(ParserTokens, MaxStmtTokens)}
    /\ ps_extensions \in SUBSET {<<"mytag">>}
    /\ ps_end_tokens = NoneArg
    /\ ps_drop_needle = FALSE
    /\ ps_result = <<>>
    /\ ps_pc = "idle"
    /\ ps_last = NoParserCall

ParserIdle ==
    /\ ps_stream = stream_init(<<>>)
    /\ ps_extensions = {}
    /\ ps_end_tokens = NoneArg
    /\ ps_drop_needle = FALSE
    /\ ps_result = <<>>
    /\ ps_pc = "idle"
    /\ ps_last = NoParserCall

\* A call of parse_statement.
ParseStatementCall ==
    /\ ps_pc = "idle"
    /\ ps_last' = ParserCall("parse_statement", NoneArg, parse_statement(ParserSelf))
    /\ UNCHANGED <<ps_stream, ps_extensions, ps_end_tokens, ps_drop_needle,
                   ps_result, ps_pc>>
    /\ UNCHANGED OtherThanParser

\* A call of is_tuple_end.
IsTupleEndCall(extra_end_rules) ==
    /\ ps_pc = "idle"
    /\ ps_last' = ParserCall("is_tuple_end", extra_end_rules,
                             is_tuple_end(ParserSelf, extra_end_rules))
    /\ UNCHANGED <<ps_stream, ps_extensions, ps_end_tokens, ps_drop_needle,
                   ps_result, ps_pc>>
    /\ UNCHANGED OtherThanParser

\* parse_statements is called: result = [].
ParseStatementsEnter(end_tokens, drop_needle) ==
    /\ ps_pc = "idle"
    /\ ps_pc' = "loop"
    /\ ps_end_tokens' = end_tokens
    /\ ps_drop_needle' = drop_needle
    /\ ps_result' = <<>>
    /\ ps_last' = NoParserCall
    /\ UNCHANGED <<ps_stream, ps_extensions>>
    /\ UNCHANGED OtherThanParser

ParseStatementsApply(p) ==
    /\ ps_pc' = p.pc
    /\ ps_stream' = p.stream
    /\ ps_result' = p.result
    /\ ps_last' = IF p.pc = "idle"
                  THEN ParserCall("parse_statements", ps_end_tokens, p)
                  ELSE ps_last

\* parse_statements goes once through its while loop.
ParseStatementsPass ==
    /\ ps_pc = "loop"
    /\ Len(ps_result) < MaxResult
    /\ ParseStatementsApply(parse_statements_pass(ParserSelf, ps_result,
                                                  ps_end_tokens, ps_drop_needle))
    /\ UNCHANGED <<ps_extensions, ps_end_tokens, ps_drop_needle>>
    /\ UNCHANGED OtherThanParser

ParserNext ==
    \/ ParseStatementCall
    \/ \E extra_end_rules \in ParserRules \cup {NoneArg} :
          IsTupleEndCall(extra_end_rules)
    \/ \E end_tokens \in ParserRules, drop_needle \in BOOLEAN :
          ParseStatementsEnter(end_tokens, drop_needle)
    \/ ParseStatementsPass

----------------------------------------------------------------------------
(* Bucket and BytecodeCache *)

NumSources == 2

TemplateNames == {"index.html", "base.html"}

TemplateSources == 1..NumSources

\* sha1(...).hexdigest() of a text: a digest that names what was hashed.
sha1(text) == <<"sha1", text>>

\* compile(source): the code object of a source.
CodeOf(source) == <<"code", source>>

\* bc_magic: the header of a bytecode file
bc_magic == "j2<bc_version><python version>"

\* What a file holds, piece by piece: raw bytes, a pickled value or a
\* marshalled value.
Bytes(b) == [fmt |-> "bytes", val |-> <<"bytes", b>>]

Pickled(v) == [fmt |-> "pickle", val |-> v]

Marshalled(v) == [fmt |-> "marshal", val |-> v]

IsCodeType(v) == Len(v) = 2 /\ v[1] = "code"

\* marshal.load(f): the value read or the exception raised. Bytes that do not
\* start with a marshal type code are bad marshal data; the byte N is None.
marshal_load(f) ==
    IF f = <<>>
    THEN [value |-> None, raised |-> "EOFError"]
    ELSE IF Head(f).fmt = "marshal"
    THEN [value |-> Head(f).val, raised |-> PyNone]
    ELSE IF Head(f) = Bytes("N")
    THEN [value |-> None, raised |-> PyNone]
    ELSE [value |-> None, raised |-> "ValueError"]

Bucket(key, checksum, code) == [key |-> key, checksum |-> checksum, code |-> code]

NoBucket == Bucket(None, None, None)

\* Bucket.reset
Bucket_reset(self) == [self EXCEPT !.code = None]

\* Bucket.__init__
Bucket_init(key, checksum) == Bucket_reset(Bucket(key, checksum, None))

\* Bucket.load_bytecode: the bucket after the call and what the call raised.
Bucket_load_bytecode_Loaded(self, code) ==
    IF code.raised # PyNone
    THEN [raised |-> code.raised, bucket |-> self]
    ELSE IF IsCodeType(code.value)
    THEN [raised |-> PyNone, bucket |-> [self EXCEPT !.code = code.value]]
    ELSE [raised |-> PyNone, bucket |-> self]

Bucket_load_bytecode(self, f) == Bucket_load_bytecode_Loaded(self, marshal_load(f))

\* Bucket.write_bytecode: what is written to the file opened for writing.
Bucket_write_bytecode(self) ==
    IF self.code # None THEN <<Marshalled(self.code)>> ELSE <<>>

\* BytecodeCache.get_cache_key
get_cache_key(name, filename) == sha1(<<name, "|", filename>>)

\* BytecodeCache.get_source_checksum
get_source_checksum(source) == sha1(<<source>>)

\* BytecodeCache.get_bucket
get_bucket(name, filename, source) ==
    Bucket_init(get_cache_key(name, filename), get_source_checksum(source))

\* FileSystemBytecodeCache.load_bytecode
cache_load_bytecode(files, bucket) ==
    IF bucket.key \in DOMAIN files
    THEN Bucket_load_bytecode(bucket, files[bucket.key])
    ELSE [raised |-> PyNone, bucket |-> bucket]

\* FileSystemBytecodeCache.dump_bytecode: the directory after the call.
cache_dump_bytecode(files, bucket) == MapSet(files, bucket.key, Bucket_write_bytecode(bucket))

\* BytecodeCache.set_bucket
set_bucket(files, bucket) == cache_dump_bytecode(files, bucket)

\* The files handed to Bucket.load_bytecode: empty, as write_bytecode writes
\* them, and with a header of magic bytes and a pickled checksum before the
\* marshalled code.
BytecodeFiles ==
    {<<>>, <<Marshalled(<<"int", 5>>)>>}
        \cup {<<Marshalled(CodeOf(s))>> : s \in TemplateSources}
        \cup {<<Bytes(m), Pickled(get_source_checksum(c)), Marshalled(CodeOf(s))>> :
                 m \in {bc_magic, "xx", "N"}, c \in TemplateSources,
                 s \in TemplateSources}

NoBucketCall == [op |-> "none", raised |-> PyNone, file |-> <<>>]

BucketCall(op, file, raised) == [op |-> op, raised |-> raised, file |-> file]

BucketInit ==
    /\ bc_files = [k \in {} |-> <<>>]
    /\ bc_set = [k \in {} |-> NoBucket]
    /\ bc_bucket = NoBucket
    /\ bc_last = NoBucketCall

BucketIdle ==
    /\ bc_files = [k \in {} |-> <<>>]
    /\ bc_set = [k \in {} |-> NoBucket]
    /\ bc_bucket = NoBucket
    /\ bc_last = NoBucketCall

\* cache.get_bucket(environment, name, filename, source)
GetBucket(name, source) ==
    /\ bc_bucket' = get_bucket(name, None, source)
    /\ bc_last' = BucketCall("get_bucket", <<>>, PyNone)
    /\ UNCHANGED <<bc_files, bc_set>>
    /\ UNCHANGED OtherThanBucket

\* The caller compiles a source and assigns bucket.code.
AssignCode(source) ==
    /\ bc_bucket # NoBucket
    /\ bc_bucket' = [bc_bucket EXCEPT !.code = CodeOf(source)]
    /\ bc_last' = BucketCall("code =", <<>>, PyNone)
    /\ UNCHANGED <<bc_files, bc_set>>
    /\ UNCHANGED OtherThanBucket

\* cache.set_bucket(bucket)
SetBucket ==
    /\ bc_bucket # NoBucket
    /\ bc_files' = set_bucket(bc_files, bc_bucket)
    /\ bc_set' = MapSet(bc_set, bc_bucket.key, bc_bucket)
    /\ bc_last' = BucketCall("set_bucket", <<>>, PyNone)
    /\ UNCHANGED bc_bucket
    /\ UNCHANGED OtherThanBucket

BucketLoadApply(op, file, r) ==
    /\ bc_bucket' = r.bucket
    /\ bc_last' = BucketCall(op, file, r.raised)

\* cache.load_bytecode(bucket)
CacheLoadBytecode ==
    /\ bc_bucket # NoBucket
    /\ BucketLoadApply("cache.load_bytecode",
                       IF bc_bucket.key \in DOMAIN bc_files
                       THEN bc_files[bc_bucket.key] ELSE <<>>,
                       cache_load_bytecode(bc_files, bc_bucket))
    /\ UNCHANGED <<bc_files, bc_set>>
    /\ UNCHANGED OtherThanBucket

\* bucket.load_bytecode(f) on a file
BucketLoadBytecode(f) ==
    /\ bc_bucket # NoBucket
    /\ BucketLoadApply("load_bytecode", f, Bucket_load_bytecode(bc_bucket, f))
    /\ UNCHANGED <<bc_files, bc_set>>
    /\ UNCHANGED OtherThanBucket

BucketNext ==
    \/ \E name \in TemplateNames, source \in TemplateSources : GetBucket(name, source)
    \/ \E source \in TemplateSources : AssignCode(source)
    \/ SetBucket
    \/ CacheLoadBytecode
    \/ \E f \in BytecodeFiles : BucketLoadBytecode(f)

----------------------------------------------------------------------------
(* safe_range *)

MAX_RANGE == 100000

\* The integer arguments lie within RangeSlack of 0, MAX_RANGE, -MAX_RANGE
\* and twice these; steps within MaxStep of 0.
RangeSlack == 1

MaxStep == 2

\* a // b of Python: the quotient rounded towards minus infinity.
FloorDiv(a, b) ==
    IF b > 0 THEN a \div b ELSE (-a) \div (-b)

\* len(range(start, stop, step)) for step # 0
RangeLen(start, stop, step) ==
    IF step > 0
    THEN IF start < stop THEN (stop - start - 1) \div step + 1 ELSE 0
    ELSE IF start > stop THEN (start - stop - 1) \div (-step) + 1 ELSE 0

\* range(start, stop, step)
Range(start, stop, step) == [start |-> start, stop |-> stop, step |-> step]

RangeReturn(r) == [raised |-> PyNone, range |-> r]

RangeRaise(exc) == [raised |-> exc, range |-> Range(0, 0, 0)]

\* safe_range after start, stop and step are bound.
safe_range_Checked(start, stop, step) ==
    IF step = 0
    THEN RangeRaise("ZeroDivisionError")
    ELSE IF FloorDiv(stop - start + step - 1, step) > MAX_RANGE
    THEN RangeRaise("OverflowError")
    ELSE RangeReturn(Range(start, stop, step))

\* safe_range(*args)
safe_range(args) ==
    IF Len(args) = 1 THEN safe_range_Checked(0, args[1], 1)
    ELSE IF Len(args) = 2 THEN safe_range_Checked(args[1], args[2], 1)
    ELSE IF Len(args) = 3 THEN safe_range_Checked(args[1], args[2], args[3])
    ELSE RangeRaise("TypeError")

Near(x) == (x - RangeSlack)..(x + RangeSlack)

RangeEnds ==
    Near(0) \cup Near(MAX_RANGE) \cup Near(-MAX_RANGE)
        \cup Near(2 * MAX_RANGE) \cup Near(-2 * MAX_RANGE)

RangeSteps == (-MaxStep)..MaxStep

RangeArgs ==
    {<<>>, <<0, 1, 1, 1>>}
        \cup {<<a>> : a \in RangeEnds}
        \cup {<<a, b>> : a \in Near(0) \cup Near(MAX_RANGE), b \in RangeEnds}
        \cup {<<a, b, s>> : a \in Near(0) \cup Near(MAX_RANGE), b \in RangeEnds,
                            s \in RangeSteps}

NoRangeCall == [raised |-> "<not called>", range |-> Range(0, 0, 0)]

RangeInit ==
    /\ sr_args \in RangeArgs
    /\ sr_last = NoRangeCall

RangeIdle ==
    /\ sr_args = <<>>
    /\ sr_last = NoRangeCall

\* safe_range(*args) is called.
SafeRangeCall ==
    /\ sr_last = NoRangeCall
    /\ sr_last' = safe_range(sr_args)
    /\ UNCHANGED sr_args
    /\ UNCHANGED OtherThanRange

RangeNext == SafeRangeCall

----------------------------------------------------------------------------
(* get_lexer *)

\* _lexer_cache = LRUCache(50): the cache of the model holds
\* LexerCacheCapacity lexers.
LexerCacheCapacity == 2

\* Lexer(environment) for the environment whose settings make up key.
LexerOf(key) == <<"Lexer", key>>

LexerIdle == [key |-> 0, rv |-> None, pc |-> "idle", exc |-> PyNone]

LexerFrame(pc, key, rv, exc) == [key |-> key, rv |-> rv, pc |-> pc, exc |-> exc]

\* get_lexer: `if key in _lexer_cache`
get_lexer_test(cache, key) ==
    LexerFrame(IF key \in DOMAIN cache.mapping THEN "lookup" ELSE "create",
               key, None, PyNone)

\* get_lexer: `return _lexer_cache[key]`, given the finished __getitem__ call.
get_lexer_lookup(frame, r) ==
    IF r.f.exc # "<None>"
    THEN LexerFrame("done", frame.key, None, r.f.exc)
    ELSE LexerFrame("done", frame.key, r.f.rv, PyNone)

\* get_lexer: `lexer = Lexer(environment)`, `_lexer_cache[key] = lexer`,
\* `return lexer`, given the finished __setitem__ call.
get_lexer_store(frame, r) ==
    IF r.f.exc # "<None>"
    THEN LexerFrame("done", frame.key, None, r.f.exc)
    ELSE LexerFrame("done", frame.key, LexerOf(frame.key), PyNone)

GetLexerInit ==
    /\ gl_cache = Cache(EmptyMap, <<>>)
    /\ gl_frame = [t \in Threads |-> LexerIdle]

GetLexerIdle ==
    /\ gl_cache = Cache(EmptyMap, <<>>)
    /\ gl_frame = [t \in Threads |-> LexerIdle]

\* A thread calls get_lexer and makes the membership test, which takes no lock.
GetLexerTest(t, key) ==
    /\ gl_frame[t].pc = "idle"
    /\ gl_frame' = [gl_frame EXCEPT ![t] = get_lexer_test(gl_cache, key)]
    /\ UNCHANGED gl_cache
    /\ UNCHANGED OtherThanGetLexer

GetLexerApply(t, frame, r) ==
    /\ gl_cache' = r.c
    /\ gl_frame' = [gl_frame EXCEPT ![t] = frame]

\* The thread looks the key up: one __getitem__ call, made under the lock.
GetLexerLookup(t) ==
    /\ gl_frame[t].pc = "lookup"
    /\ GetLexerApply(t,
                     get_lexer_lookup(gl_frame[t],
                                      cache_call(gl_cache,
                                                 Frame("getitem", gl_frame[t].key, "<None>"),
                                                 LexerCacheCapacity)),
                     cache_call(gl_cache, Frame("getitem", gl_frame[t].key, "<None>"),
                                LexerCacheCapacity))
    /\ UNCHANGED OtherThanGetLexer

\* The thread makes a Lexer and stores it: one __setitem__ call, made under
\* the lock.
GetLexerStore(t) ==
    /\ gl_frame[t].pc = "create"
    /\ GetLexerApply(t,
                     get_lexer_store(gl_frame[t],
                                     cache_call(gl_cache,
                                                Frame("setitem", gl_frame[t].key,
                                                      LexerOf(gl_frame[t].key)),
                                                LexerCacheCapacity)),
                     cache_call(gl_cache,
                                Frame("setitem", gl_frame[t].key, LexerOf(gl_frame[t].key)),
                                LexerCacheCapacity))
    /\ UNCHANGED OtherThanGetLexer

\* The call is over: the thread has its Lexer or its exception.
GetLexerReturn(t) ==
    /\ gl_frame[t].pc = "done"
    /\ gl_frame' = [gl_frame EXCEPT ![t] = LexerIdle]
    /\ UNCHANGED gl_cache
    /\ UNCHANGED OtherThanGetLexer

GetLexerNext ==
    \/ \E t \in Threads, key \in Keys : GetLexerTest(t, key)
    \/ \E t \in Threads : GetLexerLookup(t)
    \/ \E t \in Threads : GetLexerStore(t)
    \/ \E t \in Threads : GetLexerReturn(t)

----------------------------------------------------------------------------
(* The specifications: one component runs, the others stay idle *)

InitLexer == LexInit /\ StreamIdle /\ CacheIdle /\ MacroIdle /\ SymbolsIdle /\ ContextIdle /\ LoopIdle /\ UndefinedIdle /\ OptimizerIdle /\ ParserIdle /\ BucketIdle /\ RangeIdle /\ GetLexerIdle

SpecLexer == InitLexer /\ [][LexNext]_vars

InitStream == StreamInit /\ LexIdle /\ CacheIdle /\ MacroIdle /\ SymbolsIdle /\ ContextIdle /\ LoopIdle /\ UndefinedIdle /\ OptimizerIdle /\ ParserIdle /\ BucketIdle /\ RangeIdle /\ GetLexerIdle

SpecStream == InitStream /\ [][StreamNext]_vars

InitCache == CacheInit /\ LexIdle /\ StreamIdle /\ MacroIdle /\ SymbolsIdle /\ ContextIdle /\ LoopIdle /\ UndefinedIdle /\ OptimizerIdle /\ ParserIdle /\ BucketIdle /\ RangeIdle /\ GetLexerIdle

SpecCache == InitCache /\ [][CacheNext]_vars

SpecCacheThreads == InitCache /\ [][ThreadsNext]_vars

InitMacro == MacroInit /\ LexIdle /\ StreamIdle /\ CacheIdle /\ SymbolsIdle /\ ContextIdle /\ LoopIdle /\ UndefinedIdle /\ OptimizerIdle /\ ParserIdle /\ BucketIdle /\ RangeIdle /\ GetLexerIdle

SpecMacro == InitMacro /\ [][MacroNext]_vars

InitSymbols == SymbolsInit /\ LexIdle /\ StreamIdle /\ CacheIdle /\ MacroIdle /\ ContextIdle /\ LoopIdle /\ UndefinedIdle /\ OptimizerIdle /\ ParserIdle /\ BucketIdle /\ RangeIdle /\ GetLexerIdle

SpecSymbols == InitSymbols /\ [][SymbolsNext]_vars

InitContext == ContextInit /\ LexIdle /\ StreamIdle /\ CacheIdle /\ MacroIdle /\ SymbolsIdle /\ LoopIdle /\ UndefinedIdle /\ OptimizerIdle /\ ParserIdle /\ BucketIdle /\ RangeIdle /\ GetLexerIdle

SpecContext == InitContext /\ [][ContextNext]_vars

InitLoop == LoopInit /\ LexIdle /\ StreamIdle /\ CacheIdle /\ MacroIdle /\ SymbolsIdle /\ ContextIdle /\ UndefinedIdle /\ OptimizerIdle /\ ParserIdle /\ BucketIdle /\ RangeIdle /\ GetLexerIdle

SpecLoop == InitLoop /\ [][LoopContextNext]_vars

InitUndefined == UndefinedInit /\ LexIdle /\ StreamIdle /\ CacheIdle /\ MacroIdle /\ SymbolsIdle /\ ContextIdle /\ LoopIdle /\ OptimizerIdle /\ ParserIdle /\ BucketIdle /\ RangeIdle /\ GetLexerIdle

SpecUndefined == InitUndefined /\ [][UndefinedNext]_vars

InitOptimizer == OptimizerInit /\ LexIdle /\ StreamIdle /\ CacheIdle /\ MacroIdle /\ SymbolsIdle /\ ContextIdle /\ UndefinedIdle /\ LoopIdle /\ ParserIdle /\ BucketIdle /\ RangeIdle /\ GetLexerIdle

SpecOptimizer == InitOptimizer /\ [][OptimizerNext]_vars

InitParser == ParserInit /\ LexIdle /\ StreamIdle /\ CacheIdle /\ MacroIdle /\ SymbolsIdle /\ ContextIdle /\ UndefinedIdle /\ LoopIdle /\ OptimizerIdle /\ BucketIdle /\ RangeIdle /\ GetLexerIdle

SpecParser == InitParser /\ [][ParserNext]_vars

InitBucket == BucketInit /\ LexIdle /\ StreamIdle /\ CacheIdle /\ MacroIdle /\ SymbolsIdle /\ ContextIdle /\ UndefinedIdle /\ LoopIdle /\ OptimizerIdle /\ ParserIdle /\ RangeIdle /\ GetLexerIdle

SpecBucket == InitBucket /\ [][BucketNext]_vars

InitRange == RangeInit /\ LexIdle /\ StreamIdle /\ CacheIdle /\ MacroIdle /\ SymbolsIdle /\ ContextIdle /\ UndefinedIdle /\ LoopIdle /\ OptimizerIdle /\ ParserIdle /\ BucketIdle /\ GetLexerIdle

SpecRange == InitRange /\ [][RangeNext]_vars

InitGetLexer == GetLexerInit /\ LexIdle /\ StreamIdle /\ CacheIdle /\ MacroIdle /\ SymbolsIdle /\ ContextIdle /\ UndefinedIdle /\ LoopIdle /\ OptimizerIdle /\ ParserIdle /\ BucketIdle /\ RangeIdle

SpecGetLexer == InitGetLexer /\ [][GetLexerNext]_vars


----------------------------------------------------------------------------
(* Claims about Lexer.tokeniter, checked under SpecLexer *)

\* The nested state of the construct a root match opened.
NestedStateOf(grp) == CASE grp = "comment"   -> "comment_begin"
                        [] grp = "block"     -> "block_begin"
                        [] grp = "variable"  -> "variable_begin"
                        [] grp = "raw_begin" -> "raw_begin"

\* The last rule application was the root rule matching a tag opening.
RootOpened == lx_m.state = "root" /\ lx_m.rule = 1

\* The tokens the last rule application yielded.
LastYielded == SubSeq(lx_out, Len(lx_out) - lx_m.yielded + 1, Len(lx_out))

\* C1: when the root rule matches a comment, block or variable opening, the
\* state pushed on the state stack is the nested state of that construct, and
\* when that nested state's closing rule matches, the state is popped and the
\* lexer is in root again.
C1_RootPushesNestedState ==
    /\ (RootOpened /\ lx_m.grp \in {"comment", "block", "variable"})
          => /\ lx_state = NestedStateOf(lx_m.grp)
             /\ lx_stack[Len(lx_stack)] = NestedStateOf(lx_m.grp)
    /\ (/\ lx_m.state \in {"comment_begin", "block_begin", "variable_begin"}
        /\ lx_m.command = "#pop"
        /\ Len(lx_stack) = 1)
          => lx_state = "root"

\* C7: when a tag opening carries the - modifier, the data token emitted for
\* the text preceding that tag has no trailing whitespace, and no data token
\* is emitted when nothing but whitespace preceded the tag.
C7_MinusStripsPrecedingData ==
    (RootOpened /\ lx_m.sign = "-")
       => \A i \in 1..Len(LastYielded) :
             LastYielded[i].type = "data"
                => /\ LastYielded[i].value # <<>>
                   /\ ~IsSpace(LastYielded[i].value[Len(LastYielded[i].value)])

\* The message that names the construct left unclosed, as the rule table's
\* Failure entries word it.
UnclosedMessage(state) ==
    CASE state = "comment_begin" -> "Missing end of comment tag"
      [] state = "raw_begin"     -> "Missing end of raw directive"
      [] OTHER                   -> "Unexpected end of template"

\* The source ended while the lexer was in a nested state.
EndedNested == /\ lx_pc \in {"done", "raised"}
               /\ lx_lineno > Len(lx_lines)
               /\ lx_state \in DOMAIN rules
               /\ lx_state # "root"

\* C8: if the source ends while the lexer is in a nested state, tokenizing
\* raises a template syntax error, no eof token is produced, and the error
\* identifies which kind of construct was left unclosed.
C8_UnclosedConstructIdentified ==
    EndedNested
       => /\ lx_pc = "raised"
          /\ lx_err.cls = "TemplateSyntaxError"
          /\ \A i \in 1..Len(lx_out) : lx_out[i].type # "eof"
          /\ lx_err.message = UnclosedMessage(lx_state)

\* C9: inside a block or variable tag, text at the current position that
\* matches none of the state's rules raises a template syntax error carrying
\* message, line, template name and filename; the rest of the line is never
\* skipped silently.
C9_UnmatchedTextRaises ==
    [][ (/\ lx_pc = "loop"
         /\ lx_state \in {"block_begin", "variable_begin"}
         /\ lx_pos < Len(lx_line)
         /\ FirstRule(lx_state, lx_line, lx_pos) = 0)
           => (/\ lx_pc' = "raised"
               /\ lx_err'.cls = "TemplateSyntaxError"
               /\ lx_err'.lineno = lx_lineno
               /\ lx_err'.name = "name"
               /\ lx_err'.filename = "filename") ]_vars

\* C10: for every source tokenized without error, a token of type eof is
\* emitted exactly once and is the last token emitted; no token before it has
\* type eof.
C10_EofOnceAndLast ==
    /\ \A i \in 1..Len(lx_out) :
          lx_out[i].type = "eof" => (i = Len(lx_out) /\ lx_pc = "done")
    /\ lx_pc = "done"
          => (lx_out # <<>> /\ lx_out[Len(lx_out)].type = "eof")

\* A run that ended without error after yielding tokens from several lines.
C10_Witness ==
    /\ lx_pc = "done"
    /\ Len(lx_out) >= 3
    /\ lx_out[Len(lx_out)].lineno > lx_out[1].lineno


----------------------------------------------------------------------------
(* Claims about TokenStream, checked under SpecStream *)

\* The tokens the next n advances return.
RECURSIVE Advances(_, _)
Advances(st, n) ==
    IF n = 0 THEN <<>>
    ELSE <<stream_next(st).rv>> \o Advances(stream_next(st).st, n - 1)

\* Enough advances to drain the pushed tokens and the generator.
Horizon == MaxTokens + MaxPushed + 3

\* The token that follows current: what current becomes on the next advance.
Following(st) == stream_next(st).st.current

\* C2: look() returns the token that follows current and is a net no-op on
\* the cursor: after it returns, current is the same token as before the
\* call, and the tokens returned by subsequent advances are the same as if
\* look() had not been called.
C2_LookIsNetNoOp ==
    ts_last.op = "look"
       => /\ ts_last.rv = Following(ts_last.before)
          /\ ts_current = ts_last.before.current
          /\ Advances(TheStream, Horizon) = Advances(ts_last.before, Horizon)


----------------------------------------------------------------------------
(* Claims about the lexer's state stack *)

\* The last rule applied was a #pop on a stack of one state.
PoppedLast == lx_m.command = "#pop" /\ lx_m.depth = 1

\* C11: the state stack is never empty: after every rule application it
\* holds at least one state, and a #pop on a stack of one state leaves the
\* stack [root].
C11_StackNeverEmpty ==
    /\ Len(lx_stack) >= 1
    /\ lx_state = lx_stack[Len(lx_stack)]
    /\ PoppedLast => lx_stack = <<"root">>

\* A comment, block or variable end was lexed in a nested initial state.
C11_Witness ==
    /\ PoppedLast
    /\ lx_m.state # "root"
    /\ lx_stack = <<"root">>

----------------------------------------------------------------------------
(* Claims about the cursor of TokenStream *)

\* The last call was made with current on the eof token and nothing pushed.
AtEof ==
    /\ ts_last.op \in {"next", "skip", "next_if"}
    /\ ts_last.before.current.type = "eof"
    /\ ts_last.before.pushed = <<>>

\* C12: current is always a token of the generator or a pushed token, never
\* the initial placeholder; on the eof token with nothing pushed, next, skip
\* and a matching next_if return the eof token where they return a token and
\* leave current on that eof token.
C12_CurrentValidEofRepeats ==
    /\ ts_current.type \in {"name", "data", "eof"}
    /\ AtEof =>
          /\ ts_current = ts_last.before.current
          /\ ts_pushed = <<>>
          /\ ts_last.op = "next" => ts_last.rv = ts_last.before.current
          /\ (ts_last.op = "next_if" /\ TokenTest(ts_last.before.current, ts_last.arg))
                => ts_last.rv = ts_last.before.current

\* Two tokens were skipped on the eof token of a generator that had tokens.
C12_Witness ==
    /\ AtEof
    /\ ts_last.op = "skip" /\ ts_last.arg = 2
    /\ ts_current.type = "eof" /\ ts_current.lineno > 1
    /\ ts_iter = <<>>

\* C13: pushed tokens become current on later advances in the order they
\* were pushed, before any further token is taken from the generator: push
\* appends behind the tokens pushed earlier, and from any state the next
\* advances return current and then the pushed tokens, first pushed first,
\* with the generator untouched.
C13_PushedFirstInFirstOut ==
    /\ ts_last.op = "push" =>
          /\ ts_pushed = Append(ts_last.before.pushed, ts_last.arg)
          /\ ts_current = ts_last.before.current
          /\ ts_iter = ts_last.before.iter
    /\ Advances(TheStream, Len(ts_pushed) + 1) = <<ts_current>> \o ts_pushed
    /\ stream_skip(TheStream, Len(ts_pushed)).iter = ts_iter
    /\ stream_skip(TheStream, Len(ts_pushed)).pushed = <<>>

\* An advance took the first of two different pushed tokens while the
\* generator still had tokens.
C13_Witness ==
    /\ ts_last.op = "next"
    /\ Len(ts_last.before.pushed) = 2
    /\ ts_last.before.pushed[1] # ts_last.before.pushed[2]
    /\ ts_current = ts_last.before.pushed[1]
    /\ ts_pushed = <<ts_last.before.pushed[2]>>
    /\ ts_iter = ts_last.before.iter
    /\ ts_iter # <<>>

\* The text w occurs somewhere in s.
Occurs(s, w) == \E p \in 0..Len(s) : Lit(s, p, w)

\* The source holds no opening of a block, a variable or a comment.
NoTagOpening(s) ==
    /\ ~Occurs(s, block_start_string)
    /\ ~Occurs(s, variable_start_string)
    /\ ~Occurs(s, comment_start_string)

\* The values of the data tokens of out, one after the other.
RECURSIVE DataText(_)
DataText(out) ==
    IF out = <<>> THEN <<>>
    ELSE (IF Head(out).type = "data" THEN Head(out).value ELSE <<>>)
             \o DataText(Tail(out))

\* C27: for a source without a tag opening, tokeniter started in the root
\* state yields data tokens whose values, put together, are the source with
\* its newlines normalized: every line, the first included, is scanned.
C27_DataTokensCoverSource ==
    (/\ lx_pc = "done"
     /\ lx_stack[1] = "root"
     /\ NoTagOpening(lx_source))
        => DataText(lx_out) = normalize_newlines(lx_source)

----------------------------------------------------------------------------
(* Claims about LRUCache *)

Present(c) == DOMAIN c.mapping

\* The last call was a __setitem__ of an absent key into a full cache.
FullInsert ==
    /\ lru_last.op = "setitem"
    /\ lru_last.key \notin Present(lru_last.before)
    /\ Cardinality(Present(lru_last.before)) = lru_capacity

\* The last call was a __getitem__ or __setitem__ of a key already present.
HitPresent ==
    /\ lru_last.op \in {"getitem", "setitem"}
    /\ lru_last.key \in Present(lru_last.before)

\* C3: inserting an absent key into a full cache of capacity c >= 1 removes
\* exactly one entry, the least recently accessed one; __getitem__ or
\* __setitem__ on a present key evicts nothing and makes the key the most
\* recently used.
C3_EvictsLeastRecentlyAccessed ==
    /\ FullInsert =>
          /\ lru_last.exc = "<None>"
          /\ Present(lru_last.before) \ Present(TheCache) = {Head(lru_last.recency.accessed)}
          /\ Present(TheCache) \ Present(lru_last.before) = {lru_last.key}
    /\ HitPresent =>
          /\ lru_last.exc = "<None>"
          /\ Present(TheCache) = Present(lru_last.before)
          /\ lru_queue[Len(lru_queue)] = lru_last.key
          /\ lru_queue = lru_recency.accessed

\* A full insert whose victim is not the oldest inserted key, after a hit
\* reordered the cache.
C3_Witness ==
    /\ FullInsert
    /\ lru_capacity >= 2
    /\ Head(lru_last.recency.accessed) # Head(lru_last.recency.inserted)
    /\ Head(lru_last.recency.accessed) \notin Present(TheCache)
    /\ Head(lru_last.recency.inserted) \in Present(TheCache)

Consistent(c) ==
    /\ {c.queue[i] : i \in 1..Len(c.queue)} = Present(c)
    /\ Len(c.queue) = Cardinality(Present(c))

Inside == {t \in Threads : lru_frame[t] # Idle}

\* C4: calls of several threads on one cache exclude each other under the
\* write lock, so whenever no call is running the queue and the mapping hold
\* the same keys, and the cache never holds more than capacity entries.
C4_CallsAtomicUnderLock ==
    /\ Cardinality(Inside) <= 1
    /\ Inside # {} => lru_lock \in Inside
    /\ lru_lock = Free => Consistent(TheCache)
    /\ Cardinality(Present(TheCache)) <= lru_capacity

\* A thread is waiting outside while another is halfway through an insert
\* into a full cache: the evicted key is gone, the new one is not yet stored.
C4_Witness ==
    \E t \in Threads :
        /\ lru_frame[t] # Idle
        /\ lru_frame[t].op = "setitem"
        /\ lru_frame[t].pc = "s5"
        /\ lru_lock = t
        /\ ~Consistent(TheCache)
        /\ \E u \in Threads : u # t /\ lru_frame[u] = Idle

\* The last call was a __getitem__ or __delitem__ of a key that was absent.
MissAbsent ==
    /\ lru_last.op \in {"getitem", "delitem"}
    /\ lru_last.key \notin Present(lru_last.before)

\* C28: after any sequence of __setitem__, __getitem__ and __delitem__ calls,
\* failing ones included, on a cache of capacity c >= 1 the queue holds
\* exactly the keys of the mapping, each once, and at most c of them;
\* __getitem__ and __delitem__ of an absent key raise KeyError and change
\* nothing; `key in cache` changes neither the cache nor the recency order.
C28_QueueIsMappingKeys ==
    /\ \A k \in Present(TheCache) :
           Cardinality({i \in 1..Len(lru_queue) : lru_queue[i] = k}) = 1
    /\ \A i \in 1..Len(lru_queue) : lru_queue[i] \in Present(TheCache)
    /\ Len(lru_queue) <= lru_capacity
    /\ MissAbsent => (lru_last.exc = "KeyError" /\ TheCache = lru_last.before)
    /\ lru_last.op = "contains" =>
          /\ TheCache = lru_last.before
          /\ lru_recency = lru_last.recency
          /\ lru_last.rv = (IF lru_last.key \in Present(TheCache) THEN "True" ELSE "False")

\* A __delitem__ of an absent key failed on a full cache of two keys whose
\* order of last access is not their order of insertion.
C28_Witness ==
    /\ MissAbsent
    /\ lru_last.op = "delitem"
    /\ lru_capacity = 2
    /\ Len(lru_queue) = 2
    /\ lru_recency.accessed # lru_recency.inserted

----------------------------------------------------------------------------
(* Claims about Macro.__call__ *)

MacroCalled == mc_result # NotCalled

\* The positional arguments of the call, without a leading EvalContext.
CallArgs ==
    IF mc_args # <<>> /\ mc_args[1] \in EvalContexts THEN Tail(mc_args) ELSE mc_args

\* How many parameters the positional arguments cover.
Covered ==
    IF Len(CallArgs) < Len(mc_macro.arguments) THEN Len(CallArgs)
    ELSE Len(mc_macro.arguments)

\* The names of the parameters no positional argument covers.
Uncovered == {mc_macro.arguments[i] : i \in (Covered + 1)..Len(mc_macro.arguments)}

ExtraPositionals == Len(CallArgs) > Len(mc_macro.arguments)

\* The keywords no parameter takes.
NotTaken == DOMAIN mc_kwargs \ Uncovered

\* The keywords neither a parameter nor the caller of a macro with a caller
\* can take.
LeftOver == NotTaken \ (IF mc_macro.caller THEN {"caller"} ELSE {})

KwargsSlots == {i \in 1..Len(mc_result.arguments) : mc_result.arguments[i].kind = "kwargs"}

VarargsSlots == {i \in 1..Len(mc_result.arguments) : mc_result.arguments[i].kind = "varargs"}

DeclaresCaller ==
    mc_macro.caller /\ \A i \in 1..Len(mc_macro.arguments) : mc_macro.arguments[i] # "caller"

SlotKinds ==
    [i \in 1..Len(mc_macro.arguments) |-> "value"]
        \o (IF DeclaresCaller THEN <<"value">> ELSE <<>>)
        \o (IF mc_macro.catch_kwargs THEN <<"kwargs">> ELSE <<>>)
        \o (IF mc_macro.catch_varargs THEN <<"varargs">> ELSE <<>>)

\* C6: when the call goes through, the i-th value of the list is the i-th
\* positional argument, or for a parameter that no positional covers the
\* keyword of its name or missing; the keywords taken by parameters are not in
\* the catch-all; and the list is one value per parameter and then the
\* caller, kwargs and varargs slots of the macro, whatever the call.
C6_BindsInDeclarationOrder ==
    (MacroCalled /\ mc_result.exc = PyNone) =>
        /\ Len(mc_result.arguments) >= Len(mc_macro.arguments)
        /\ \A i \in 1..Len(mc_macro.arguments) :
              mc_result.arguments[i] =
                  ValueSlot(IF i <= Covered THEN CallArgs[i]
                            ELSE IF mc_macro.arguments[i] \in DOMAIN mc_kwargs
                            THEN mc_kwargs[mc_macro.arguments[i]]
                            ELSE missing)
        /\ \A i \in KwargsSlots : DOMAIN mc_result.arguments[i].kwargs \subseteq NotTaken
        /\ [i \in 1..Len(mc_result.arguments) |-> mc_result.arguments[i].kind] = SlotKinds

----------------------------------------------------------------------------
(* Claims about FrameSymbolVisitor and NodeVisitor, checked under SpecSymbols *)

\* The node classes that have a symbol table of their own.
ScopeClasses == {"Block", "Scope", "OverlayScope"}

\* The names a tree assigns (ctx store or param) outside every Block, Scope
\* and OverlayScope node in it.
RECURSIVE AssignedOutsideScopes(_)
AssignedOutsideScopes(node) ==
    IF node.type \in ScopeClasses
    THEN {}
    ELSE (IF node.type = "Name" /\ node.ctx \in {"store", "param"}
          THEN {node.name} ELSE {})
           \cup UNION {AssignedOutsideScopes(node.kids[i]) : i \in 1..Len(node.kids)}

\* The names a tree assigns anywhere.
RECURSIVE AssignedAnywhere(_)
AssignedAnywhere(node) ==
    (IF node.type = "Name" /\ node.ctx \in {"store", "param"}
     THEN {node.name} ELSE {})
      \cup UNION {AssignedAnywhere(node.kids[i]) : i \in 1..Len(node.kids)}

VisitDone == fs_todo = <<>> /\ fs_tree \in fs_seen

\* C14: FrameSymbolVisitor does not descend into Block, Scope or OverlayScope
\* nodes: at every point of a visit, stores and loads hold no name that the
\* visited tree assigns only inside such a node, and the visit of such a node
\* makes no further visit() call and changes neither stores nor loads.
C14_StopsAtNestedScopes ==
    /\ fs_stores \cup DOMAIN fs_loads \subseteq AssignedOutsideScopes(fs_tree)
    /\ (VisitDone /\ fs_tree.type \in ScopeClasses) =>
           /\ fs_seen = {fs_tree}
           /\ fs_stores = {}
           /\ fs_loads = NoLoads

\* A Block, Scope or OverlayScope whose body assigns a name was visited, and
\* the name is in neither stores nor loads.
C14_Witness ==
    /\ VisitDone
    /\ fs_tree.type \in ScopeClasses
    /\ AssignedAnywhere(fs_tree) # {}
    /\ AssignedAnywhere(fs_tree) \cap (fs_stores \cup DOMAIN fs_loads) = {}

\* C15: visiting a For node does not add the name of the loop target to the
\* stores of the frame the visitor works for.
C15_ForTargetNotStored ==
    fs_tree.type = "For" => AssignedAnywhere(fs_tree.kids[1]) \cap fs_stores = {}

\* C19: visit() on a node whose class has no visit_ method goes on to visit
\* every child of that node.
C19_GenericVisitReachesChildren ==
    VisitDone =>
        \A n \in fs_seen :
            n.type \notin FrameSymbolHandlers =>
                \A i \in 1..Len(n.kids) : n.kids[i] \in fs_seen

----------------------------------------------------------------------------
(* Claims about Context, checked under SpecContext *)

\* The value of a name: from vars, else from parent, else the missing sentinel.
VarsThenParent(parent, vars_, key) ==
    IF key \in DOMAIN vars_ THEN vars_[key]
    ELSE IF key \in DOMAIN parent THEN parent[key]
    ELSE missing

\* C16: resolve_or_missing returns the value from vars when the name is in
\* vars, else the value from parent when it is in parent, else missing;
\* __getitem__ returns that value or raises KeyError when it is missing; so
\* `name in context` is true exactly when context[name] returns a value.
C16_LookupVarsThenParentElseMissing ==
    /\ cx_last.op = "resolve_or_missing" =>
           cx_last.value = VarsThenParent(cx_parent, cx_vars, cx_last.key)
    /\ cx_last.op = "getitem" =>
           /\ Context_contains(cx_parent, cx_vars, cx_last.key) <=> cx_last.raised = ""
           /\ IF VarsThenParent(cx_parent, cx_vars, cx_last.key) = missing
              THEN cx_last.raised = "KeyError"
              ELSE /\ cx_last.raised = ""
                   /\ cx_last.value = VarsThenParent(cx_parent, cx_vars, cx_last.key)

----------------------------------------------------------------------------
(* Claims about LoopContext, checked under SpecLoop *)

\* The items still to come: the one fetched ahead, then the iterator's.
LoopAhead == (IF lp_after = missing THEN <<>> ELSE <<lp_after>>) \o lp_iterator

----------------------------------------------------------------------------
(* Claims about Undefined, checked under SpecUndefined *)

\* C17: every arithmetic, ordering-comparison, subscript, call and
\* numeric-conversion operation on a default Undefined raises the undefined
\* error (UndefinedError unless another class was given) and returns no value.
C17_OperationsRaiseUndefinedError ==
    ud_last.kind \in {"arithmetic", "comparison", "subscript", "call", "conversion"} =>
        ud_last.raised = ud_self.exc

----------------------------------------------------------------------------
(* Claims about optimize, checked under SpecOptimizer *)

\* C20: optimize is idempotent: optimize of the AST that optimize returned
\* returns an AST identical to it.
C20_OptimizeIdempotent ==
    /\ (Len(op_runs) >= 1 /\ ~op_runs[1].raised) =>
           optimize(op_runs[1].node, op_unpack) = op_runs[1]
    /\ \A i \in 2..Len(op_runs) :
           ~op_runs[1].raised => op_runs[i] = op_runs[1]

\* optimize ran twice on an AST that the first run changed, under a node that
\* is two levels deep.
C20_Witness ==
    /\ Len(op_runs) >= 2
    /\ ~op_runs[1].raised
    /\ op_runs[1].node # op_input
    /\ op_runs[2].node = op_runs[1].node
    /\ op_input.type \in {"List", "CondExpr", "Call", "Getitem"}
    /\ \E i \in 1..Len(op_input.kids) : op_input.kids[i].type \in {"Dict", "Call", "Filter"}


----------------------------------------------------------------------------
(* Parser claims *)

\* The tokens the stream still holds behind the current one.
StreamRemaining(st) == Len(st.pushed) + Len(st.iter)

\* What a statement parsed by an extension's parse function would return.
ExtensionResult == "<result of extension.parse>"

\* C21: parse_statements raises the end-of-template error only when the end
\* of the template is reached: the current token is eof or the stream is
\* exhausted, never a body token such as variable_begin.
C21_EofErrorOnlyAtEof ==
    (ps_last.op = "parse_statements" /\ ps_last.raised.exc = "TemplateSyntaxError")
        => (ps_stream.current.type = "eof" \/ ps_stream.closed)

\* C22: parse_statement on a name token that is no built-in keyword but an
\* extension tag of Parser.extensions returns what that extension's parse
\* function returns.
C22_ExtensionTagDispatched ==
    (/\ ps_last.op = "parse_statement"
     /\ ps_stream.current.type = "name"
     /\ ps_stream.current.value \notin statement_keywords \cup {<<"call">>, <<"filter">>}
     /\ ps_stream.current.value \in ps_extensions)
        => (ps_last.raised.exc = PyNone /\ ps_last.rv = ExtensionResult)

\* C23: is_tuple_end returns True when the current token matches one of the
\* extra end rules the caller supplied.
C23_ExtraEndRuleMatches ==
    (/\ ps_last.op = "is_tuple_end"
     /\ ps_last.arg.kind = "tuple"
     /\ \E i \in 1..Len(ps_last.arg.items) :
           TokenTest(ps_stream.current, ps_last.arg.items[i]))
        => (ps_last.raised.exc = PyNone /\ ps_last.rv = TRUE)

\* C30: every pass through the loop of parse_statements that goes on to
\* another pass has consumed at least one token of the stream.
C30_EachPassConsumesAToken ==
    [][(ps_pc = "loop" /\ ps_pc' = "loop")
          => StreamRemaining(ps_stream') < StreamRemaining(ps_stream)]_vars

----------------------------------------------------------------------------
(* Bucket and BytecodeCache claims *)

\* The file starts with a header that is not the magic header.
WrongMagic(f) == f # <<>> /\ Head(f).fmt = "bytes" /\ Head(f) # Bytes(bc_magic)

\* The file has the magic header and, after it, a checksum other than c.
OtherChecksum(f, c) ==
    /\ Len(f) >= 2
    /\ Head(f) = Bytes(bc_magic)
    /\ f[2].fmt = "pickle"
    /\ f[2].val # c

\* C24: Bucket.load_bytecode on a file whose magic header is wrong or whose
\* checksum is not the bucket's raises nothing and leaves the bucket empty.
C24_BadFileLeavesBucketEmpty ==
    (/\ bc_last.op = "load_bytecode"
     /\ (WrongMagic(bc_last.file) \/ OtherChecksum(bc_last.file, bc_bucket.checksum)))
        => (bc_last.raised = PyNone /\ bc_bucket.code = None)

\* C25: a get_bucket for a name, filename and source for which set_bucket
\* stored a bucket with bytecode returns a bucket that holds that bytecode.
C25_GetBucketReturnsStoredCode ==
    (/\ bc_last.op = "get_bucket"
     /\ bc_bucket.key \in DOMAIN bc_set
     /\ bc_set[bc_bucket.key].checksum = bc_bucket.checksum
     /\ bc_set[bc_bucket.key].code # None)
        => bc_bucket.code = bc_set[bc_bucket.key].code

----------------------------------------------------------------------------
(* safe_range claims *)

\* The call was made with one to three arguments and a step that is not 0.
RangeCalled ==
    /\ sr_last # NoRangeCall
    /\ Len(sr_args) \in 1..3
    /\ (Len(sr_args) = 3 => sr_args[3] # 0)

\* len(range(*args)) of the arguments of the call.
ArgsLen ==
    IF Len(sr_args) = 1 THEN RangeLen(0, sr_args[1], 1)
    ELSE IF Len(sr_args) = 2 THEN RangeLen(sr_args[1], sr_args[2], 1)
    ELSE RangeLen(sr_args[1], sr_args[2], sr_args[3])

\* range(*args) of the arguments of the call.
ArgsRange ==
    IF Len(sr_args) = 1 THEN Range(0, sr_args[1], 1)
    ELSE IF Len(sr_args) = 2 THEN Range(sr_args[1], sr_args[2], 1)
    ELSE Range(sr_args[1], sr_args[2], sr_args[3])

\* C26: safe_range with one to three integers and a step other than 0
\* returns range(*args) when that range has at most MAX_RANGE items and
\* raises OverflowError when it has more, for positive and negative steps.
C26_RangeUpToMaxRange ==
    RangeCalled =>
        IF ArgsLen <= MAX_RANGE
        THEN sr_last = RangeReturn(ArgsRange)
        ELSE sr_last.raised = "OverflowError"

----------------------------------------------------------------------------
(* get_lexer claims *)

\* C29: get_lexer is safe under concurrent use: every call returns a Lexer
\* for its own key, and none fails because another thread's insertion
\* evicted the key between the membership test and the lookup.
C29_EveryCallReturnsItsLexer ==
    \A t \in Threads :
        gl_frame[t].pc = "done" =>
            (gl_frame[t].exc = PyNone /\ gl_frame[t].rv = LexerOf(gl_frame[t].key))

============================================================================
